---- MODULE Spec2Model ----
(***************************************************************************)
(* State-machine model of the Ozon product parser: command-line option     *)
(* resolution (cli-options.ts), browser acquisition and teardown           *)
(* (browser-utils.ts, scenario-utils.ts), the six scenarios, the anti-bot  *)
(* challenge flow and JSON-LD breadcrumb extraction.                       *)
(*                                                                         *)
(* JavaScript values are modelled as follows:                              *)
(*   - an optional value (T | undefined) is a sequence of length <= 1:     *)
(*     <<>> is undefined and <<v>> is the value v;                         *)
(*   - a token (command-line word, environment value) is a TLA+ string;    *)
(*     string inspection (startsWith, split, Number) is done through the   *)
(*     tables below, which enumerate the words the model draws from.       *)
(***************************************************************************)
EXTENDS Integers, Sequences, FiniteSets, TLC

VARIABLES
    cliPc,       \* position of bootstrap(): "start", "parsed", "exit0", "exit1", "running"
    cliArgv,     \* process.argv.slice(2) handed to parseCli
    cliEnv,      \* process.env handed to parseCli
    cliResult,   \* what parseCli returned or threw
    pc,          \* position of the scenario function being executed
    fn,          \* the scenario function being executed
    entry,       \* how it was entered: "service" (OzonParserService.run) or "direct"
    options,     \* the RunOptions record the scenario received
    browser,     \* the Browser object: how it was obtained and browser.connected
    ownsBrowser, \* the ownsBrowser flag returned by acquireBrowser
    http,        \* the GET /json/version exchange of resolveEndpointFromPort
    calls,       \* how often each driver / helper operation has been invoked
    evaluation,  \* the snapshots captured so far: how many, the first and the current isChallenge
    stdinTTY,    \* process.stdin.isTTY as read by the wait that is in progress
    completion,  \* pending completion of the try block while finally/catch runs
    outcome,     \* how the scenario settled: "pending", "returned", "threw" and why
    headful,     \* waitForHeadfulBrowser: its timer and listener, how often finish()
                 \* ran and resolve() was called, and the event that settled it
    exPc,        \* position of the extraction run: "start", "evaluated",
                 \* "normalized", "again", "reduced"
    exDoc,       \* the JSON-LD script payloads of the page, in document order
    exDom,       \* the heading and price elements of the page
    exSnapshot,  \* the EvaluationResult produced by evaluatePage
    exRecord,    \* the ProductInfo produced by normalizeProductInfo
    exAgain,     \* the ProductInfo of a second call with the same snapshot
    exRemoved,   \* the property taken out of the snapshot, "" for none
    exReduced,   \* the ProductInfo of the snapshot without that property
    navPc,       \* position of navigateWithAnchor: a label of NavProgram,
                 \* "returned", "threw"
    navListener, \* the 'targetcreated' listener: "none", "on", "off"
    navTimer,    \* the timeout timer: "none", "armed", "fired", "cleared"
    navClick,    \* whether the anchor click has been dispatched in the page
    navPromise,  \* newTargetPromise: "pending", "resolved", "rejected"
    navObserved, \* the notification of the opened page: "none", "observed",
                 \* "late" (after the timeout), "lost" (no listener yet)
    navOthers,   \* notifications of targets that are no pages, so far
    navResult,   \* what navigateWithAnchor returned: "none", "page", "null"
    navWarnings, \* the warnings navigateWithAnchor has logged
    navCaller,   \* the scenario function that awaited this call, "none" before it reads
    navRead,     \* the page that function reads next: "none", "original", "returned"
    tabPc,       \* position of the same-tab navigateWithAnchor and of its caller
    tabCaller,   \* the scenario function that calls it
    tabCalls,    \* how many calls it has made so far
    tabLocation, \* where the page is: "initial", "about:blank", "target"
    tabBlank,    \* how page.goto('about:blank') ended: "none", "loaded", "failed"
    tabClicked,  \* whether the anchor click has been dispatched in the page
    tabWait,     \* page.waitForNavigation: "none", "waiting", "resolved", "timedOut"
    tabWarnings, \* the warnings this navigateWithAnchor has logged
    tabRead      \* the page location its caller has read afterwards, "none" before

cliVars == <<cliPc, cliArgv, cliEnv, cliResult>>
runVars == <<pc, fn, entry, options, browser, ownsBrowser, http, calls,
             evaluation, stdinTTY, completion, outcome, headful>>
exVars == <<exPc, exDoc, exDom, exSnapshot, exRecord, exAgain, exRemoved, exReduced>>
navVars == <<navPc, navListener, navTimer, navClick, navPromise, navObserved, navOthers,
            navResult, navWarnings, navCaller, navRead>>
tabVars == <<tabPc, tabCalls, tabCaller, tabLocation, tabBlank, tabClicked, tabWait, tabWarnings,
            tabRead>>
vars == <<cliVars, runVars, exVars, navVars, tabVars>>

-----------------------------------------------------------------------------
(* Optional values.                                                        *)

Undefined == <<>>
Some(v) == <<v>>
IsDef(x) == x # Undefined
Val(x) == x[1]
\* a ?? b
Coalesce(a, b) == IF IsDef(a) THEN a ELSE b
\* truthiness of an optional string: undefined and '' are falsy
TruthyStr(x) == IsDef(x) /\ Val(x) # ""

-----------------------------------------------------------------------------
(* Words and the string tables.                                            *)

DEFAULT_PRODUCT_URL ==
    "https://www.ozon.ru/product/kedy-adidas-sportswear-grand-court-base-2-0-1066650955/"

Scenarios == {"parseProduct", "openGoogle", "openProduct", "openRoot",
              "openFirstProductFromRoot", "parseFirstProductFromRoot"}

\* words of the form --name=value, with the result of split('=')
InlineWords ==
    {<<"--connect-endpoint=ws://b", "--connect-endpoint", "ws://b">>,
     <<"--connect-port=9333", "--connect-port", "9333">>,
     <<"--connect-port=", "--connect-port", "">>,
     <<"--scenario=openRoot", "--scenario", "openRoot">>,
     <<"--scenario=bogus", "--scenario", "bogus">>,
     <<"--timeout=5000", "--timeout", "5000">>,
     <<"--url=https://npm", "--url", "https://npm">>,
     <<"--proxy=http://npm", "--proxy", "http://npm">>,
     <<"--proxy-username=npmuser", "--proxy-username", "npmuser">>,
     <<"--proxy-password=npmpass", "--proxy-password", "npmpass">>}

\* words that start with "--"
DoubleDashWords ==
    {"--", "--help", "--url", "--json", "--text", "--timeout",
     "--connect-endpoint", "--connect-port", "--proxy", "--proxy-username",
     "--proxy-password", "--no-headless", "--headless", "--auto-close",
     "--keep-browser-open", "--verbose", "--scenario", "--check-google",
     "--open-product-page-only", "--open-root-page", "--unknown"}
    \cup {w[1] : w \in InlineWords}

\* words that start with "-"
DashWords == DoubleDashWords \cup {"-h", "-u", "-v"}

\* word.startsWith('-')
StartsWithDash(word) == word \in DashWords
\* word.startsWith('--')
StartsWithDoubleDash(word) == word \in DoubleDashWords

\* word.split('=')[0]
SplitName(word) ==
    IF \E w \in InlineWords : w[1] = word
    THEN (CHOOSE w \in InlineWords : w[1] = word)[2]
    ELSE word
\* word.split('=')[1]
SplitInline(word) ==
    IF \E w \in InlineWords : w[1] = word
    THEN Some((CHOOSE w \in InlineWords : w[1] = word)[3])
    ELSE Undefined

\* Number(word) for the words that are finite numbers; Number('') is 0
NumberTable ==
    {<<"9222", 9222>>, <<"9333", 9333>>, <<"5000", 5000>>, <<"20000", 20000>>,
     <<"15000", 15000>>, <<"0", 0>>, <<"", 0>>}
\* Number.isFinite(Number(word))
IsFiniteNumber(word) == \E n \in NumberTable : n[1] = word
\* Number(word), for a word with IsFiniteNumber
NumberOf(word) == (CHOOSE n \in NumberTable : n[1] = word)[2]

\* word.toLowerCase()
ToLowerCase(word) ==
    CASE word = "FALSE" -> "false"
      [] word = "False" -> "false"
      [] word = "TRUE" -> "true"
      [] OTHER -> word

-----------------------------------------------------------------------------
(* cli-options.ts: parseCli.                                               *)

\* validateScenario: the value itself, or a thrown error (Undefined)
validateScenario(value) ==
    IF value \in Scenarios THEN Some(value) ELSE Undefined

\* parseNumber: undefined for undefined, '' and words that are no finite number
parseNumber(value) ==
    IF ~TruthyStr(value) THEN Undefined
    ELSE IF ~IsFiniteNumber(Val(value)) THEN Undefined
    ELSE Some(NumberOf(Val(value)))

\* headlessFromEnv
HeadlessFromEnv(env) ==
    ToLowerCase(Val(Coalesce(env.PARSER_HEADLESS, Some("")))) \notin {"false", "0"}

\* the options record built from the environment before the argument loop
EnvOptions(env) ==
    [url |-> Val(Coalesce(env.PARSER_PRODUCT_URL, Some(DEFAULT_PRODUCT_URL))),
     output |-> IF env.PARSER_OUTPUT = Some("json") THEN "json" ELSE "text",
     headless |-> HeadlessFromEnv(env),
     timeoutMs |-> parseNumber(env.PARSER_TIMEOUT),
     verbose |-> FALSE,
     keepBrowserOpen |-> ~HeadlessFromEnv(env),
     proxy |-> Coalesce(env.PARSER_PROXY, Coalesce(env.HTTPS_PROXY, env.HTTP_PROXY)),
     proxyUsername |-> env.PARSER_PROXY_USERNAME,
     proxyPassword |-> env.PARSER_PROXY_PASSWORD,
     connectEndpoint |-> env.PARSER_CONNECT_ENDPOINT,
     connectPort |-> parseNumber(env.PARSER_CONNECT_PORT),
     scenario |-> Val(validateScenario(Val(Coalesce(env.PARSER_SCENARIO, Some("parseProduct")))))]

\* args[index], undefined past the end (index is 1-based here)
At(words, index) ==
    IF index >= 1 /\ index <= Len(words) THEN Some(words[index]) ELSE Undefined

\* ensureValue: the value, or Undefined when it throws 'Expected value after'
ensureValue(args, index) ==
    LET value == At(args, index)
    IN  IF ~TruthyStr(value) \/ StartsWithDash(Val(value)) THEN Undefined ELSE value

Includes(words, word) == \E i \in 1..Len(words) : words[i] = word

Throw(st, message) == [st EXCEPT !.error = Some(message)]

\* one iteration of the argument loop: the parse state and the next index
ArgStep(args, index, st) ==
    LET arg == args[index]
        o == st.options
        value == ensureValue(args, index + 1)
        expected == [st |-> Throw(st, "Expected value after"), index |-> index + 1]
        set(opts) == [st |-> [st EXCEPT !.options = opts], index |-> index + 1]
        take(opts) == [st |-> [st EXCEPT !.options = opts], index |-> index + 2]
    IN  CASE arg \in {"--help", "-h"} ->
               [st |-> [st EXCEPT !.helpRequested = TRUE], index |-> index + 1]
          [] arg \in {"--url", "-u"} ->
               IF ~IsDef(value) THEN expected
               ELSE take([o EXCEPT !.url = Val(value)])
          [] arg = "--json" -> set([o EXCEPT !.output = "json"])
          [] arg = "--text" -> set([o EXCEPT !.output = "text"])
          [] arg = "--timeout" ->
               IF ~IsDef(value) THEN expected
               ELSE IF ~IsFiniteNumber(Val(value))
                    THEN [st |-> Throw(st, "Invalid timeout value"), index |-> index + 1]
                    ELSE take([o EXCEPT !.timeoutMs = Some(NumberOf(Val(value)))])
          [] arg = "--connect-endpoint" ->
               IF ~IsDef(value) THEN expected
               ELSE take([o EXCEPT !.connectEndpoint = value])
          [] arg = "--connect-port" ->
               IF ~IsDef(value) THEN expected
               ELSE IF ~IsFiniteNumber(Val(value))
                    THEN [st |-> Throw(st, "Invalid port value"), index |-> index + 1]
                    ELSE take([o EXCEPT !.connectPort = Some(NumberOf(Val(value)))])
          [] arg = "--proxy" ->
               IF ~IsDef(value) THEN expected
               ELSE take([o EXCEPT !.proxy = value])
          [] arg = "--proxy-username" ->
               IF ~IsDef(value) THEN expected
               ELSE take([o EXCEPT !.proxyUsername = value])
          [] arg = "--proxy-password" ->
               IF ~IsDef(value) THEN expected
               ELSE take([o EXCEPT !.proxyPassword = value])
          [] arg = "--no-headless" ->
               set([o EXCEPT !.headless = FALSE, !.keepBrowserOpen = TRUE])
          [] arg = "--headless" ->
               set([o EXCEPT !.headless = TRUE, !.keepBrowserOpen = FALSE])
          [] arg = "--auto-close" -> set([o EXCEPT !.keepBrowserOpen = FALSE])
          [] arg = "--keep-browser-open" -> set([o EXCEPT !.keepBrowserOpen = TRUE])
          [] arg \in {"--verbose", "-v"} -> set([o EXCEPT !.verbose = TRUE])
          [] arg = "--scenario" ->
               IF ~IsDef(value) THEN expected
               ELSE IF ~IsDef(validateScenario(Val(value)))
                    THEN [st |-> Throw(st, "Unknown scenario"), index |-> index + 1]
                    ELSE take([o EXCEPT !.scenario = Val(value)])
          [] OTHER ->
               IF StartsWithDash(arg)
               THEN [st |-> Throw(st, "Unknown argument"), index |-> index + 1]
               ELSE IF o.url = "" \/ o.url = DEFAULT_PRODUCT_URL
                    THEN set([o EXCEPT !.url = arg])
                    ELSE IF ~IsDef(o.timeoutMs) /\ IsFiniteNumber(arg)
                         THEN set([o EXCEPT !.timeoutMs = Some(NumberOf(arg))])
                         ELSE [st |-> Throw(st, "Unexpected argument"),
                               index |-> index + 1]

\* the argument loop from index on; it stops at the first thrown error
RECURSIVE ArgLoop(_, _, _)
ArgLoop(args, index, st) ==
    IF IsDef(st.error) \/ index > Len(args) THEN st
    ELSE LET step == ArgStep(args, index, st)
         IN  ArgLoop(args, step.index, step.st)

\* a conflict check that tests the endpoint against the wrong option
ConnectConflictOnTimeout(o) == TruthyStr(o.connectEndpoint) /\ IsDef(o.timeoutMs)

\* the conflict check that follows the argument loop
ConnectConflict(o) == TruthyStr(o.connectEndpoint) /\ IsDef(o.connectPort)

\* getValue of the npm_config_argv recovery
getValue(original, flag, index) ==
    LET e == At(original, index)
        next == At(original, index + 1)
    IN  IF ~TruthyStr(e) THEN Undefined
        ELSE IF SplitName(Val(e)) # flag THEN Undefined
        ELSE IF TruthyStr(SplitInline(Val(e))) THEN SplitInline(Val(e))
        ELSE IF IsDef(next) /\ ~StartsWithDoubleDash(Val(next)) THEN next
        ELSE Undefined

\* the boolean and scenario-alias flags recovered from npm_config_argv
RecoverFlags(argv, original, o) ==
    LET o1 == IF Includes(original, "--check-google")
              THEN [o EXCEPT !.scenario = "openGoogle"] ELSE o
        o2 == IF Includes(original, "--open-product-page-only")
              THEN [o1 EXCEPT !.scenario = "openProduct"] ELSE o1
        o3 == IF Includes(original, "--open-root-page")
              THEN [o2 EXCEPT !.scenario = "openRoot"] ELSE o2
        o4 == IF ~Includes(argv, "--no-headless") /\ Includes(original, "--no-headless")
              THEN [o3 EXCEPT !.headless = FALSE, !.keepBrowserOpen = TRUE] ELSE o3
        o5 == IF ~Includes(argv, "--headless") /\ Includes(original, "--headless")
              THEN [o4 EXCEPT !.headless = TRUE, !.keepBrowserOpen = FALSE] ELSE o4
        o6 == IF ~Includes(argv, "--auto-close") /\ Includes(original, "--auto-close")
              THEN [o5 EXCEPT !.keepBrowserOpen = FALSE] ELSE o5
        o7 == IF ~Includes(argv, "--keep-browser-open")
                 /\ Includes(original, "--keep-browser-open")
              THEN [o6 EXCEPT !.keepBrowserOpen = TRUE] ELSE o6
    IN  IF ~Includes(argv, "--verbose") /\ Includes(original, "--verbose")
        THEN [o7 EXCEPT !.verbose = TRUE] ELSE o7

\* the --scenario recovery loop: the options and whether validateScenario threw
RECURSIVE RecoverScenario(_, _, _)
RecoverScenario(original, index, o) ==
    IF index > Len(original) THEN [options |-> o, threw |-> FALSE]
    ELSE LET e == original[index]
             value == Coalesce(SplitInline(e), getValue(original, "--scenario", index))
         IN  IF SplitName(e) # "--scenario" \/ ~TruthyStr(value)
             THEN RecoverScenario(original, index + 1, o)
             ELSE IF IsDef(validateScenario(Val(value)))
                  THEN [options |-> [o EXCEPT !.scenario = Val(value)], threw |-> FALSE]
                  ELSE [options |-> o, threw |-> TRUE]

\* one iteration of the value-flag recovery loop (the switch (true))
RecoverStep(args, original, index, o) ==
    LET e == original[index]
        name == SplitName(e)
        value == getValue(original, name, index)
    IN  IF ~StartsWithDoubleDash(e) THEN o
        ELSE CASE name = "--connect-port" ->
                    IF ~Includes(args, "--connect-port") /\ ~IsDef(o.connectPort)
                       /\ ~IsDef(o.connectEndpoint) /\ IsDef(value)
                       /\ IsFiniteNumber(Val(value))
                    THEN [o EXCEPT !.connectPort = Some(NumberOf(Val(value)))]
                    ELSE o
               [] name = "--connect-endpoint" ->
                    IF ~Includes(args, "--connect-endpoint")
                       /\ ~TruthyStr(o.connectEndpoint) /\ TruthyStr(value)
                    THEN [o EXCEPT !.connectEndpoint = value, !.connectPort = Undefined]
                    ELSE o
               [] name = "--proxy" ->
                    IF ~Includes(args, "--proxy") /\ ~TruthyStr(o.proxy) /\ TruthyStr(value)
                    THEN [o EXCEPT !.proxy = value] ELSE o
               [] name = "--proxy-username" ->
                    IF ~Includes(args, "--proxy-username") /\ ~TruthyStr(o.proxyUsername)
                       /\ TruthyStr(value)
                    THEN [o EXCEPT !.proxyUsername = value] ELSE o
               [] name = "--proxy-password" ->
                    IF ~Includes(args, "--proxy-password") /\ ~TruthyStr(o.proxyPassword)
                       /\ TruthyStr(value)
                    THEN [o EXCEPT !.proxyPassword = value] ELSE o
               [] name = "--timeout" ->
                    IF ~Includes(args, "--timeout") /\ ~IsDef(o.timeoutMs) /\ IsDef(value)
                       /\ IsFiniteNumber(Val(value))
                    THEN [o EXCEPT !.timeoutMs = Some(NumberOf(Val(value)))]
                    ELSE o
               [] name = "--url" ->
                    IF ~Includes(args, "--url") /\ o.url = DEFAULT_PRODUCT_URL
                       /\ TruthyStr(value)
                    THEN [o EXCEPT !.url = Val(value)] ELSE o
               [] OTHER -> o

RECURSIVE RecoverLoop(_, _, _, _)
RecoverLoop(args, original, index, o) ==
    IF index > Len(original) THEN o
    ELSE RecoverLoop(args, original, index + 1, RecoverStep(args, original, index, o))

\* the whole recovery block (try ... catch {}): a thrown validateScenario
\* leaves the options as they were at that point
RecoverFromNpm(argv, args, npm, o) ==
    IF ~IsDef(npm) \/ ~Val(npm).wellFormed THEN o
    ELSE LET original == Val(npm).original
             flagged == RecoverFlags(argv, original, o)
             hasScenario == \E i \in 1..Len(original) :
                                original[i] = "--scenario"
                                \/ (SplitName(original[i]) = "--scenario"
                                    /\ IsDef(SplitInline(original[i])))
             scen == IF hasScenario THEN RecoverScenario(original, 1, flagged)
                     ELSE [options |-> flagged, threw |-> FALSE]
         IN  IF scen.threw THEN scen.options
             ELSE RecoverLoop(args, original, 1, scen.options)

\* the last statement of parseCli
KeepOpenOnlyForParseProduct(args, o) ==
    IF o.scenario # "parseProduct" /\ ~Includes(args, "--keep-browser-open")
       /\ ~Includes(args, "--auto-close")
    THEN [o EXCEPT !.keepBrowserOpen = FALSE]
    ELSE o

\* parseCli(argv, env): [error, options, helpRequested]; error is Undefined
\* when parseCli returns and the message when it throws
parseCli(argv, env) ==
    LET args == SelectSeq(argv, LAMBDA a : a # "--")
        envScenario == validateScenario(Val(Coalesce(env.PARSER_SCENARIO,
                                                      Some("parseProduct"))))
    IN  IF ~IsDef(envScenario)
        THEN [error |-> Some("Unknown scenario"), options |-> Undefined,
              helpRequested |-> FALSE]
        ELSE LET st == ArgLoop(args, 1, [options |-> EnvOptions(env),
                                        helpRequested |-> FALSE, error |-> Undefined])
             IN  IF IsDef(st.error)
                 THEN [error |-> st.error, options |-> Undefined, helpRequested |-> FALSE]
                 ELSE IF st.options.url = ""
                 THEN [error |-> Some("Missing product URL"), options |-> Undefined,
                       helpRequested |-> FALSE]
                 ELSE IF ConnectConflict(st.options)
                 THEN [error |-> Some("Provide either --connect-endpoint or --connect-port, not both."),
                       options |-> Undefined, helpRequested |-> FALSE]
                 ELSE [error |-> Undefined,
                       options |-> Some(KeepOpenOnlyForParseProduct(args,
                                       RecoverFromNpm(argv, args, env.npm_config_argv,
                                                      st.options))),
                       helpRequested |-> st.helpRequested]

-----------------------------------------------------------------------------
(* main.ts: bootstrap() around parseCli.                                   *)

MaxArgs == 4
MaxOriginal == 2
MaxFlags == 3

\* all sequences over words of length at most n
SeqsUpTo(words, n) == UNION {[1..k -> words] : k \in 0..n}

\* an environment in which nothing is set
EmptyEnv ==
    [PARSER_HEADLESS |-> Undefined, PARSER_SCENARIO |-> Undefined,
     PARSER_PRODUCT_URL |-> Undefined, PARSER_OUTPUT |-> Undefined,
     PARSER_TIMEOUT |-> Undefined, PARSER_PROXY |-> Undefined,
     HTTPS_PROXY |-> Undefined, HTTP_PROXY |-> Undefined,
     PARSER_PROXY_USERNAME |-> Undefined, PARSER_PROXY_PASSWORD |-> Undefined,
     PARSER_CONNECT_ENDPOINT |-> Undefined, PARSER_CONNECT_PORT |-> Undefined,
     npm_config_argv |-> Undefined]

\* npm_config_argv: a string that is not JSON, or JSON with an 'original' array
NpmMalformed == Some([wellFormed |-> FALSE, original |-> <<>>])
NpmOriginal(original) == Some([wellFormed |-> TRUE, original |-> original])

\* command lines and environments about the connect endpoint and port
ConnectArgvs ==
    SeqsUpTo({"--connect-endpoint", "--connect-port", "ws://a", "9222"}, MaxArgs)
ConnectOriginals ==
    SeqsUpTo({"--connect-endpoint", "--connect-port", "ws://b", "9333"}, MaxOriginal)
    \cup {<<"--connect-endpoint=ws://b">>, <<"--connect-port=9333">>,
          <<"--connect-port=9333", "--connect-endpoint=ws://b">>,
          <<"--connect-endpoint=ws://b", "--connect-port=9333">>}
ConnectEnvs ==
    {[EmptyEnv EXCEPT !.PARSER_CONNECT_ENDPOINT = e, !.PARSER_CONNECT_PORT = p,
                      !.npm_config_argv = n] :
        e \in {Undefined, Some(""), Some("ws://env")},
        p \in {Undefined, Some("9222"), Some("abc")},
        n \in {Undefined, NpmMalformed} \cup {NpmOriginal(o) : o \in ConnectOriginals}}

\* command lines that ask for the usage text
HelpArgvs == {<<"--help">>, <<"-h">>, <<"--help", "--connect-port", "9222">>}

\* what npm leaves of the command line when it keeps the flags to itself
NpmArgvs ==
    SeqsUpTo({"--connect-endpoint", "--connect-port", "ws://a", "9222"}, MaxOriginal)
\* environments of a run that npm did not start
PlainEnvs == {env \in ConnectEnvs : env.npm_config_argv = Undefined}

\* command lines of the flags that set headless and keepBrowserOpen, in
\* every order, and the environments they meet
HeadlessFlags == {"--no-headless", "--headless", "--auto-close", "--keep-browser-open"}
HeadlessArgvs == SeqsUpTo(HeadlessFlags, MaxFlags)
HeadlessEnvs ==
    {[EmptyEnv EXCEPT !.PARSER_HEADLESS = h, !.PARSER_SCENARIO = sc] :
        h \in {Undefined, Some(""), Some("false"), Some("FALSE"), Some("0"), Some("true")},
        sc \in {Undefined, Some("openRoot")}}
\* a command line of which npm kept some flags to itself
HeadlessNpmInputs ==
    {<<argv, [EmptyEnv EXCEPT !.npm_config_argv = NpmOriginal(original)]>> :
        argv \in {<<>>, <<"--auto-close">>, <<"--no-headless">>},
        original \in SeqsUpTo({"--no-headless", "--auto-close"}, MaxOriginal)}

\* command lines that give the url, the timeout and the proxy settings by
\* flag, as a bare word or not at all
UrlArgvs ==
    {<<>>, <<"--url", "https://cli">>, <<"-u", "https://cli">>,
     <<"-u", DEFAULT_PRODUCT_URL>>, <<"https://word">>}
TimeoutArgvs == {<<>>, <<"--timeout", "20000">>}
ProxyArgvs ==
    {<<>>, <<"--proxy", "http://cli">>,
     <<"--proxy-username", "cliuser", "--proxy-password", "clipass">>}
PrecedenceArgvs ==
    {u \o t \o p : u \in UrlArgvs, t \in TimeoutArgvs, p \in ProxyArgvs}
\* what npm_config_argv holds of such a command line
PrecedenceOriginals ==
    {<<"--url=https://npm", "--timeout=5000">>,
     <<"--proxy=http://npm", "--proxy-username=npmuser">>,
     <<"--proxy-password=npmpass", "--url", "https://npm">>}
PrecedenceEnvs ==
    {[EmptyEnv EXCEPT !.PARSER_PRODUCT_URL = url, !.PARSER_TIMEOUT = timeout,
                      !.PARSER_PROXY = parser, !.HTTPS_PROXY = secure,
                      !.HTTP_PROXY = plain, !.PARSER_PROXY_USERNAME = user,
                      !.PARSER_PROXY_PASSWORD = user, !.npm_config_argv = n] :
        url \in {Undefined, Some("https://env")},
        timeout \in {Undefined, Some("15000")},
        parser \in {Undefined, Some("http://parser")},
        secure \in {Undefined, Some("http://https")},
        plain \in {Undefined, Some("http://http")},
        user \in {Undefined, Some("envuser")},
        n \in {Undefined} \cup {NpmOriginal(o) : o \in PrecedenceOriginals}}

CliInputs ==
    (ConnectArgvs \X PlainEnvs) \cup (NpmArgvs \X ConnectEnvs)
    \cup (HelpArgvs \X {EmptyEnv})
    \cup (HeadlessArgvs \X HeadlessEnvs) \cup HeadlessNpmInputs
    \cup (PrecedenceArgvs \X PrecedenceEnvs)

NoResult == [error |-> Undefined, options |-> Undefined, helpRequested |-> FALSE]

CliIdle ==
    /\ cliPc = "start"
    /\ cliArgv = <<>>
    /\ cliEnv = EmptyEnv
    /\ cliResult = NoResult

\* const result = parseCli(process.argv.slice(2))
CliParse ==
    /\ cliPc = "start"
    /\ \E input \in CliInputs :
          /\ cliArgv' = input[1]
          /\ cliEnv' = input[2]
          /\ cliResult' = parseCli(input[1], input[2])
    /\ cliPc' = "parsed"
    /\ UNCHANGED <<runVars, exVars, navVars, tabVars>>

\* catch (error) { ...; process.exit(1) }
CliExitError ==
    /\ cliPc = "parsed"
    /\ IsDef(cliResult.error)
    /\ cliPc' = "exit1"
    /\ UNCHANGED <<cliArgv, cliEnv, cliResult, runVars, exVars, navVars, tabVars>>

\* if (helpRequested) { printHelp(); process.exit(0) }
CliExitHelp ==
    /\ cliPc = "parsed"
    /\ ~IsDef(cliResult.error)
    /\ cliResult.helpRequested
    /\ cliPc' = "exit0"
    /\ UNCHANGED <<cliArgv, cliEnv, cliResult, runVars, exVars, navVars, tabVars>>

\* await parser.run(...): the scenario, and with it acquireBrowser, starts
CliRun ==
    /\ cliPc = "parsed"
    /\ ~IsDef(cliResult.error)
    /\ ~cliResult.helpRequested
    /\ cliPc' = "running"
    /\ UNCHANGED <<cliArgv, cliEnv, cliResult, runVars, exVars, navVars, tabVars>>

-----------------------------------------------------------------------------
(* browser-utils.ts: acquireBrowser and resolveEndpointFromPort.           *)

\* statuses the response callback of GET /json/version is called with
Statuses == {200, 204, 301, 302, 399, 400, 404, 500}

\* response bodies: text that is not JSON; JSON null; a JSON object without
\* webSocketDebuggerUrl, with a number there, with '' there, with a URL there
Bodies == {"notJson", "null", "noField", "fieldNumber", "fieldEmpty", "fieldUrl"}

\* a status test with > in place of >=
StatusRejectedAbove(status) == status > 400

\* if (res.statusCode && res.statusCode >= 400) reject
StatusRejected(status) == status >= 400

\* a body check without the typeof test: the number is taken for an endpoint
EndpointFromBodyUntyped(body) ==
    CASE body = "fieldUrl" -> Some("ws://resolved")
      [] body = "fieldNumber" -> Some("9229")
      [] OTHER -> Undefined

\* res.on('end'): JSON.parse and the webSocketDebuggerUrl check; Undefined on reject
EndpointFromBody(body) ==
    IF body = "fieldUrl" THEN Some("ws://resolved") ELSE Undefined

\* resolveEndpointFromPort for a finished exchange: the endpoint, or Undefined
\* for the null that .catch() turns every rejection into
resolveEndpointFromPort(exchange) ==
    CASE exchange.kind = "error" -> Undefined
      [] exchange.kind = "timeout" -> Undefined
      [] exchange.kind = "response" ->
           IF StatusRejected(exchange.status) THEN Undefined
           ELSE EndpointFromBody(exchange.body)

\* if (connectEndpoint || connectPort !== undefined)
WantsAttach(o) == TruthyStr(o.connectEndpoint) \/ IsDef(o.connectPort)

\* an acquireBrowser that reports every browser as its own
OwnsBrowserAlways(how) == how \in {"launch", "connect"}

\* the ownsBrowser flag acquireBrowser returns for each way of obtaining a browser
OwnsBrowserFor(how) == how = "launch"

NoExchange == [kind |-> "none", status |-> 0, body |-> "none"]
NoBrowser == [how |-> "none", connected |-> FALSE, endpoint |-> Undefined]
NoCalls ==
    [launch |-> 0, connect |-> 0, httpGet |-> 0, close |-> 0, disconnect |-> 0,
     authenticate |-> 0, navigate |-> 0, waitForUserSignal |-> 0,
     waitForHeadfulBrowser |-> 0, normalize |-> 0, stdinData |-> 0,
     signalTimer |-> 0, waitForNavigation |-> 0, noPage |-> 0]
NoEvaluation == [count |-> 0, first |-> Undefined, current |-> Undefined]
NoCompletion == [kind |-> "none", reason |-> "none"]

Count(name) == [calls EXCEPT ![name] = @ + 1]

Settled == outcome.kind # "pending"

\* the scenario function's promise settles
Settle(c) == outcome' = c

-----------------------------------------------------------------------------
(* The options a scenario can be called with.                              *)

\* a CliOptions record as the RunOptions the scenarios read (headless and
\* keepBrowserOpen are optional there)
AsRunOptions(o) ==
    [o EXCEPT !.headless = Some(@), !.keepBrowserOpen = Some(@)]

Concat4(a, b, c, d) == a \o b \o c \o d

\* command lines of a run: scenario, headless, keep-open and connect flags
RunArgvs ==
    {Concat4(s, h, k, c) :
        s \in {<<>>} \cup {<<"--scenario", x>> : x \in Scenarios},
        h \in {<<>>, <<"--no-headless">>, <<"--headless">>},
        k \in {<<>>, <<"--keep-browser-open">>, <<"--auto-close">>},
        c \in {<<>>, <<"--connect-port", "9222">>, <<"--connect-endpoint", "ws://a">>,
               <<"--proxy-username", "user">>}}
RunEnvs ==
    {[EmptyEnv EXCEPT !.PARSER_HEADLESS = h, !.PARSER_CONNECT_ENDPOINT = e] :
        h \in {Undefined, Some("false")}, e \in {Undefined, Some("")}}

\* the option records parseCli returns for these command lines
CliProducedOptions ==
    {AsRunOptions(Val(parseCli(a, e).options)) :
        <<a, e>> \in {x \in RunArgvs \X RunEnvs : ~IsDef(parseCli(x[1], x[2]).error)}}

\* option records a scenario function may be handed by any other caller
DirectOptions ==
    {[url |-> DEFAULT_PRODUCT_URL, output |-> "text", headless |-> h,
      timeoutMs |-> Undefined, verbose |-> FALSE, keepBrowserOpen |-> k,
      proxy |-> Undefined, proxyUsername |-> u, proxyPassword |-> Undefined,
      connectEndpoint |-> c[1], connectPort |-> c[2], scenario |-> s] :
        h \in {Undefined, Some(TRUE), Some(FALSE)},
        k \in {Undefined, Some(TRUE)},
        u \in {Undefined, Some("user")},
        c \in {<<Undefined, Undefined>>, <<Some("ws://a"), Undefined>>,
               <<Undefined, Some(9222)>>, <<Some(""), Some(9222)>>},
        s \in Scenarios}

-----------------------------------------------------------------------------
(* ozon-parser.service.ts: OzonParserService.run, and the scenario bodies. *)

\* the switch of OzonParserService.run: the scenario function it calls
RunDispatch(scenario) ==
    CASE scenario = "openGoogle" -> "openGoogle"
      [] scenario = "openRoot" -> "openRoot"
      [] scenario = "openProduct" -> "openProduct"
      [] scenario = "openFirstProductFromRoot" -> "openFirstProductFromRoot"
      [] OTHER -> "parseProduct"

\* the awaited steps of each scenario's try block, in program order
Program(f) ==
    CASE f = "parseProduct" ->
           <<"newPage", "headers", "authenticate", "navigate", "evaluate", "normalize">>
      [] f = "parseFirstProductFromRoot" ->
           <<"wireConsole", "newPage", "headers", "authenticate", "navigateRoot",
             "settle", "findLink", "navigateProduct", "evaluate", "normalize">>
      [] f = "openGoogle" ->
           <<"newPage", "headers", "authenticate", "navigate", "waitForSelector",
             "title">>
      [] f = "openProduct" ->
           <<"newPage", "navigate", "buildSimpleInfo", "finishSimple">>
      [] f = "openRoot" ->
           <<"newPage", "navigate", "buildSimpleInfo", "finishSimple">>
      [] f = "openFirstProductFromRoot" ->
           <<"newPage", "authenticate", "navigateRoot", "findLink",
             "navigateProduct", "buildSimpleInfo", "finishSimple">>

FullParse == {"parseProduct", "parseFirstProductFromRoot"}
SimpleOpen == {"openProduct", "openRoot", "openFirstProductFromRoot"}

First(f) == Program(f)[1]
\* the step after label in f's program ("return" after the last one)
Succ(f, label) ==
    LET i == CHOOSE k \in 1..Len(Program(f)) : Program(f)[k] = label
    IN  IF i = Len(Program(f)) THEN "return" ELSE Program(f)[i + 1]

\* where control goes when the try block throws: the finally block of
\* parseProduct / parseFirstProductFromRoot / openGoogle, the catch block of
\* openProduct / openRoot / openFirstProductFromRoot
HandlerPc(f) ==
    CASE f \in FullParse -> "finally"
      [] f = "openGoogle" -> "finallyPlain"
      [] f \in SimpleOpen -> "catch"

\* throw inside the try block
Raise(reason) ==
    /\ completion' = [kind |-> "throw", reason |-> reason]
    /\ pc' = HandlerPc(fn)
    /\ UNCHANGED outcome

\* control moves to the step after the current one. The return statement
\* that ends the try block runs the finally block first (the scenarios with
\* a catch block end in finishSimpleScenario, see FinishSimpleEnd)
Proceed ==
    LET next == Succ(fn, pc)
    IN  IF next # "return"
        THEN /\ pc' = next
             /\ UNCHANGED <<completion, outcome>>
        ELSE /\ pc' = HandlerPc(fn)
             /\ completion' = [kind |-> "return", reason |-> "none"]
             /\ UNCHANGED outcome

\* waitForHeadfulBrowser has not been called
NoWait ==
    [timer |-> "none", once |-> "none", data |-> "none", flowing |-> FALSE,
     tty |-> FALSE, settled |-> FALSE, finish |-> 0, resolve |-> 0, by |-> "none"]

\* a wait that sets no fallback timer
StartWaitWithoutTimer(tty) ==
    [timer |-> "none", once |-> "on",
     data |-> IF tty THEN "on" ELSE "none", flowing |-> tty, tty |-> tty,
     settled |-> FALSE, finish |-> 0, resolve |-> 0, by |-> "none"]

\* waitForHeadfulBrowser up to the end of the promise executor:
\* browser.once('disconnected', ...), then on a terminal stdin.resume() and
\* stdin.once('data', ...), otherwise the fallback timer of 120 s
StartWait(tty) ==
    [timer |-> IF tty THEN "none" ELSE "armed", once |-> "on",
     data |-> IF tty THEN "on" ELSE "none", flowing |-> tty, tty |-> tty,
     settled |-> FALSE, finish |-> 0, resolve |-> 0, by |-> "none"]

\* a finish() that does not look at the settled flag
FinishUnguarded(h, event) ==
    [h EXCEPT !.finish = @ + 1, !.resolve = @ + 1,
              !.timer = IF @ = "armed" THEN "cleared" ELSE @,
              !.flowing = FALSE, !.by = event]

\* const finish = () => { if (settled) return; settled = true;
\* if (fallbackTimer) clearTimeout(fallbackTimer);
\* if (process.stdin.isTTY) process.stdin.pause(); resolve(); }
Finish(h, event) ==
    IF h.settled
    THEN [h EXCEPT !.finish = @ + 1]
    ELSE [h EXCEPT !.finish = @ + 1, !.settled = TRUE, !.resolve = @ + 1,
                   !.timer = IF @ = "armed" THEN "cleared" ELSE @,
                   !.flowing = FALSE, !.by = event]

\* the browser emits 'disconnected': the listener of browser.once, when it
\* is registered, is removed and calls finish()
Disconnected(h) ==
    IF h.once = "on" THEN Finish([h EXCEPT !.once = "spent"], "disconnected") ELSE h

Idle ==
    /\ pc = "idle"
    /\ fn = "none"
    /\ entry = "none"
    /\ options = Undefined
    /\ browser = NoBrowser
    /\ ownsBrowser = Undefined
    /\ http = NoExchange
    /\ calls = NoCalls
    /\ evaluation = NoEvaluation
    /\ stdinTTY = Undefined
    /\ completion = NoCompletion
    /\ outcome = [kind |-> "pending", reason |-> "none"]
    /\ headful = NoWait

\* parser.run(options) with the options parseCli produced
ServiceRun ==
    /\ pc = "idle"
    /\ \E o \in CliProducedOptions :
          /\ options' = Some(o)
          /\ fn' = RunDispatch(o.scenario)
    /\ entry' = "service"
    /\ pc' = "acquire"
    /\ UNCHANGED <<browser, ownsBrowser, http, calls, evaluation, stdinTTY,
                   completion, outcome, headful, cliVars, exVars, navVars, tabVars>>

\* a scenario function called with a RunOptions record by any other caller
DirectCall ==
    /\ pc = "idle"
    /\ \E f \in Scenarios, o \in DirectOptions :
          /\ o.scenario \in {f, "parseProduct"}
          /\ options' = Some(o)
          /\ fn' = f
    /\ entry' = "direct"
    /\ pc' = "acquire"
    /\ UNCHANGED <<browser, ownsBrowser, http, calls, evaluation, stdinTTY,
                   completion, outcome, headful, cliVars, exVars, navVars, tabVars>>

Opts == Val(options)

\* acquireBrowser up to its first await: attach to the given endpoint, issue
\* GET /json/version for the port, or launch
AcquireBrowser ==
    /\ pc = "acquire"
    /\ IF WantsAttach(Opts)
       THEN IF IsDef(Opts.connectEndpoint)
            THEN \* connectEndpoint ?? ... keeps the endpoint, '' included
                 IF TruthyStr(Opts.connectEndpoint)
                 THEN /\ pc' = "connect"
                      /\ browser' = [browser EXCEPT !.endpoint = Opts.connectEndpoint]
                      /\ UNCHANGED <<calls, outcome>>
                 ELSE /\ pc' = "done"
                      /\ Settle([kind |-> "threw", reason |-> "connection"])
                      /\ UNCHANGED <<calls, browser>>
            ELSE /\ pc' = "resolve"
                 /\ calls' = Count("httpGet")
                 /\ UNCHANGED <<browser, outcome>>
       ELSE /\ pc' = "launch"
            /\ UNCHANGED <<calls, browser, outcome>>
    /\ UNCHANGED <<fn, entry, options, ownsBrowser, http, evaluation, stdinTTY,
                   completion, headful, cliVars, exVars, navVars, tabVars>>

\* the exchange ends and resolveEndpointFromPort returns; acquireBrowser
\* throws when it returned null
Resolved(exchange) ==
    /\ http' = exchange
    /\ IF TruthyStr(resolveEndpointFromPort(exchange))
       THEN /\ pc' = "connect"
            /\ browser' = [browser EXCEPT !.endpoint = resolveEndpointFromPort(exchange)]
            /\ UNCHANGED outcome
       ELSE /\ pc' = "done"
            /\ Settle([kind |-> "threw", reason |-> "connection"])
            /\ UNCHANGED browser
    /\ UNCHANGED <<fn, entry, options, ownsBrowser, calls, evaluation, stdinTTY,
                   completion, headful, cliVars, exVars, navVars, tabVars>>

\* the response callback runs and the body ends
HttpResponse ==
    /\ pc = "resolve"
    /\ \E st \in Statuses, body \in Bodies :
          Resolved([kind |-> "response", status |-> st, body |-> body])

\* req.on('error')
HttpError ==
    /\ pc = "resolve"
    /\ Resolved([kind |-> "error", status |-> 0, body |-> "none"])

\* req.on('timeout') after 5 s: req.destroy(error)
HttpTimeout ==
    /\ pc = "resolve"
    /\ Resolved([kind |-> "timeout", status |-> 0, body |-> "none"])

\* puppeteer.connect / puppeteer.launch resolves
Obtained(how) ==
    /\ calls' = Count(how)
    /\ browser' = [browser EXCEPT !.how = how, !.connected = TRUE]
    /\ ownsBrowser' = Some(OwnsBrowserFor(how))
    /\ pc' = First(fn)
    /\ UNCHANGED <<fn, entry, options, http, evaluation, stdinTTY, completion,
                   outcome, headful, cliVars, exVars, navVars, tabVars>>

\* puppeteer.connect / puppeteer.launch rejects: acquireBrowser throws
NotObtained(how) ==
    /\ calls' = Count(how)
    /\ pc' = "done"
    /\ Settle([kind |-> "threw", reason |-> "driver"])
    /\ UNCHANGED <<fn, entry, options, browser, ownsBrowser, http, evaluation,
                   stdinTTY, completion, headful, cliVars, exVars, navVars, tabVars>>

Connect ==
    /\ pc = "connect"
    /\ (Obtained("connect") \/ NotObtained("connect"))

Launch ==
    /\ pc = "launch"
    /\ (Obtained("launch") \/ NotObtained("launch"))

\* the browser goes away by itself: the window is closed, the remote ends
BrowserDisconnects ==
    /\ pc \notin {"idle", "done", "blocked", "fsBlocked"}
    /\ browser.connected
    /\ browser' = [browser EXCEPT !.connected = FALSE]
    /\ headful' = Disconnected(headful)
    /\ UNCHANGED <<pc, fn, entry, options, ownsBrowser, http, calls, evaluation,
                   stdinTTY, completion, outcome, cliVars, exVars, navVars, tabVars>>

-----------------------------------------------------------------------------
(* The steps inside the try block.                                         *)

\* browser.newPage, setExtraHTTPHeaders, wireBrowserConsole, page.title,
\* buildSimpleInfo: an awaited driver call that returns or throws
DriverStep ==
    /\ pc \in {"wireConsole", "newPage", "headers", "title", "buildSimpleInfo"}
    /\ (Proceed \/ Raise("driver"))
    /\ UNCHANGED <<fn, entry, options, browser, ownsBrowser, http, calls,
                   evaluation, stdinTTY, headful, cliVars, exVars, navVars, tabVars>>

\* await new Promise((resolve) => setTimeout(resolve, 1_000))
SettleDelay ==
    /\ pc = "settle"
    /\ Proceed
    /\ UNCHANGED <<fn, entry, options, browser, ownsBrowser, http, calls,
                   evaluation, stdinTTY, headful, cliVars, exVars, navVars, tabVars>>

\* if (options.proxyUsername || options.proxyPassword) await page.authenticate(...)
Authenticate ==
    /\ pc = "authenticate"
    /\ IF TruthyStr(Opts.proxyUsername) \/ TruthyStr(Opts.proxyPassword)
       THEN /\ calls' = Count("authenticate")
            /\ (Proceed \/ Raise("driver"))
       ELSE /\ Proceed
            /\ UNCHANGED calls
    /\ UNCHANGED <<fn, entry, options, browser, ownsBrowser, http, evaluation,
                   stdinTTY, headful, cliVars, exVars, navVars, tabVars>>

\* the scenarios that test the page navigateWithAnchor returns
\* (if (!rootPage) throw ..., if (!productPage) throw ...)
ChecksNavigation(f) == f \in {"parseFirstProductFromRoot", "openFirstProductFromRoot"}

\* await navigateWithAnchor(...): it returns the new page, returns null, or
\* the click evaluation throws
Navigate ==
    /\ pc \in {"navigate", "navigateRoot", "navigateProduct"}
    /\ \E result \in {"page", "null", "throws"} :
          /\ calls' = [Count("navigate") EXCEPT
                          !.noPage = IF result = "null" THEN @ + 1 ELSE @]
          /\ CASE result = "page" -> Proceed
               [] result = "null" ->
                    IF ChecksNavigation(fn) THEN Raise("navigation") ELSE Proceed
               [] result = "throws" -> Raise("driver")
    /\ UNCHANGED <<fn, entry, options, browser, ownsBrowser, http, evaluation,
                   stdinTTY, headful, cliVars, exVars, navVars, tabVars>>

\* the search for the first a[href*="/product/"]
FindLink ==
    /\ pc = "findLink"
    /\ (Proceed \/ Raise("noProductLink") \/ Raise("driver"))
    /\ UNCHANGED <<fn, entry, options, browser, ownsBrowser, http, calls,
                   evaluation, stdinTTY, headful, cliVars, exVars, navVars, tabVars>>

\* try { await page.waitForSelector(...) } catch { }
WaitForSelector ==
    /\ pc = "waitForSelector"
    /\ Proceed
    /\ UNCHANGED <<fn, entry, options, browser, ownsBrowser, http, calls,
                   evaluation, stdinTTY, headful, cliVars, exVars, navVars, tabVars>>

-----------------------------------------------------------------------------
(* The challenge flow of parseProduct and parseFirstProductFromRoot.       *)

\* a headless test that takes an unset flag for headful
ChallengeFatalWhenSet(headless) == headless = Some(TRUE)

\* if (options.headless !== false) throw
ChallengeFatal(headless) == headless # Some(FALSE)

\* a retry that does not look at the second snapshot
StillFatalNever(isChallenge) == isChallenge /\ ~isChallenge

\* after the second snapshot: if (evaluation.isChallenge) throw
StillFatal(isChallenge) == isChallenge

\* a challenge flow that goes on to the second snapshot without the wait
ReevaluateAtOnce == "reevaluate"
\* where the flow stands after logger.warn: await waitForUserSignal()
AwaitUserSignal == "waitUser"

\* let evaluation = await evaluatePage(); if (evaluation.isChallenge) { ... }
Evaluate ==
    /\ pc = "evaluate"
    /\ \/ /\ Raise("driver")
          /\ UNCHANGED <<evaluation, calls, stdinTTY>>
       \/ \E isChallenge \in BOOLEAN :
             /\ evaluation' = [count |-> 1, first |-> Some(isChallenge),
                               current |-> Some(isChallenge)]
             /\ IF ~isChallenge
                THEN /\ Proceed
                     /\ UNCHANGED <<calls, stdinTTY>>
                ELSE IF ChallengeFatal(Opts.headless)
                THEN /\ Raise("challenge")
                     /\ UNCHANGED <<calls, stdinTTY>>
                ELSE \* logger.warn(...); await waitForUserSignal()
                     /\ calls' = Count("waitForUserSignal")
                     /\ \E tty \in BOOLEAN : stdinTTY' = Some(tty)
                     /\ pc' = AwaitUserSignal
                     /\ UNCHANGED <<completion, outcome>>
    /\ UNCHANGED <<fn, entry, options, browser, ownsBrowser, http, headful, cliVars, exVars, navVars, tabVars>>

\* the event that resolves waitForUserSignal: the first chunk of stdin data
\* on a terminal, the setTimeout of 30 s otherwise
SignalEvent(tty) == IF tty THEN "stdinData" ELSE "signalTimer"

\* waitForUserSignal resolves
UserSignal ==
    /\ pc = "waitUser"
    /\ calls' = Count(SignalEvent(Val(stdinTTY)))
    /\ pc' = "waitNav"
    /\ stdinTTY' = Undefined
    /\ UNCHANGED <<fn, entry, options, browser, ownsBrowser, http,
                   evaluation, completion, outcome, headful, cliVars, exVars, navVars, tabVars>>

\* try { await page.waitForNavigation(...) } catch { }: the navigation
\* happens or the wait times out, and the flow goes on either way
WaitNavigation ==
    /\ pc = "waitNav"
    /\ calls' = Count("waitForNavigation")
    /\ pc' = "reevaluate"
    /\ UNCHANGED <<fn, entry, options, browser, ownsBrowser, http,
                   evaluation, stdinTTY, completion, outcome, headful, cliVars, exVars, navVars, tabVars>>

\* evaluation = await evaluatePage(); if (evaluation.isChallenge) throw
Reevaluate ==
    /\ pc = "reevaluate"
    /\ \/ /\ Raise("driver")
          /\ UNCHANGED <<evaluation, calls, stdinTTY>>
       \/ \E isChallenge \in BOOLEAN :
             /\ evaluation' = [evaluation EXCEPT !.count = @ + 1,
                                                 !.current = Some(isChallenge)]
             /\ IF StillFatal(isChallenge)
                THEN Raise("challengeStillActive")
                ELSE /\ pc' = "normalize"
                     /\ UNCHANGED <<completion, outcome>>
             /\ UNCHANGED <<calls, stdinTTY>>
    /\ UNCHANGED <<fn, entry, options, browser, ownsBrowser, http, headful, cliVars, exVars, navVars, tabVars>>

\* return normalizeProductInfo({ evaluation, url })
Normalize ==
    /\ pc = "normalize"
    /\ calls' = Count("normalize")
    /\ Proceed
    /\ UNCHANGED <<fn, entry, options, browser, ownsBrowser, http, evaluation,
                   stdinTTY, headful, cliVars, exVars, navVars, tabVars>>

-----------------------------------------------------------------------------
(* Teardown: the finally and catch blocks, finishSimpleScenario and        *)
(* waitForHeadfulBrowser.                                                  *)

\* if (ownsBrowser && options.keepBrowserOpen && options.headless === false)
\* of the finally block of parseProduct and parseFirstProductFromRoot
KeepOpenWait(owns, o) ==
    owns /\ o.keepBrowserOpen = Some(TRUE) /\ o.headless = Some(FALSE)

\* the same test in finishSimpleScenario, which also asks for the scenario
FinishSimpleWait(owns, o) ==
    owns /\ o.headless = Some(FALSE) /\ o.keepBrowserOpen = Some(TRUE)
    /\ o.scenario = "parseProduct"

\* a finally block that closes whatever browser is connected
FinallyTeardownClosing(owns, connected) ==
    IF connected THEN "close" ELSE "none"

\* finally of parseProduct and parseFirstProductFromRoot:
\* if (ownsBrowser) { if (browser.connected) close } else if (browser.connected) disconnect
FinallyTeardown(owns, connected) ==
    IF owns THEN (IF connected THEN "close" ELSE "none")
    ELSE IF connected THEN "disconnect" ELSE "none"

\* finally of openGoogle and catch of the simple-open scenarios:
\* if (ownsBrowser && browser.connected) close else if (browser.connected) disconnect
PlainTeardown(owns, connected) ==
    IF owns /\ connected THEN "close"
    ELSE IF connected THEN "disconnect" ELSE "none"

\* the end of finishSimpleScenario
FinishSimpleTeardown(owns, connected, scenario) ==
    IF ~connected THEN "none"
    ELSE IF scenario # "parseProduct" THEN "none"
    ELSE IF owns THEN "close" ELSE "disconnect"

Owns == Val(ownsBrowser)

\* the entry of the finally block
Finally ==
    /\ pc = "finally"
    /\ IF KeepOpenWait(Owns, Opts)
       THEN /\ calls' = Count("waitForHeadfulBrowser")
            /\ \E tty \in BOOLEAN :
                  /\ stdinTTY' = Some(tty)
                  /\ headful' = StartWait(tty)
            /\ pc' = "blocked"
       ELSE /\ pc' = "teardown"
            /\ UNCHANGED <<calls, stdinTTY, headful>>
    /\ UNCHANGED <<fn, entry, options, browser, ownsBrowser, http, evaluation,
                   completion, outcome, cliVars, exVars, navVars, tabVars>>

\* the entry of finishSimpleScenario
FinishSimple ==
    /\ pc = "finishSimple"
    /\ IF FinishSimpleWait(Owns, Opts)
       THEN /\ calls' = Count("waitForHeadfulBrowser")
            /\ \E tty \in BOOLEAN :
                  /\ stdinTTY' = Some(tty)
                  /\ headful' = StartWait(tty)
            /\ pc' = "fsBlocked"
       ELSE /\ pc' = "fsTeardown"
            /\ UNCHANGED <<calls, stdinTTY, headful>>
    /\ UNCHANGED <<fn, entry, options, browser, ownsBrowser, http, evaluation,
                   completion, outcome, cliVars, exVars, navVars, tabVars>>

AfterWait == IF pc = "blocked" THEN "teardown" ELSE "fsTeardown"

\* the await of waitForHeadfulBrowser goes on when resolve() has been called
Resumed(h) ==
    IF pc \in {"blocked", "fsBlocked"} /\ h.resolve > 0
    THEN pc' = AfterWait /\ stdinTTY' = Undefined
    ELSE UNCHANGED <<pc, stdinTTY>>

\* waitForHeadfulBrowser: browser.once('disconnected', finish)
HeadfulDisconnected ==
    /\ pc \in {"blocked", "fsBlocked"}
    /\ browser.connected
    /\ browser' = [browser EXCEPT !.connected = FALSE]
    /\ headful' = Disconnected(headful)
    /\ Resumed(headful')
    /\ UNCHANGED <<fn, entry, options, ownsBrowser, http, calls, evaluation,
                   completion, outcome, cliVars, exVars, navVars, tabVars>>

\* waitForHeadfulBrowser: process.stdin.once('data', finish) on a terminal;
\* a paused stdin delivers nothing
HeadfulInput ==
    /\ headful.data = "on"
    /\ headful.flowing
    /\ headful' = Finish([headful EXCEPT !.data = "spent"], "data")
    /\ Resumed(headful')
    /\ UNCHANGED <<fn, entry, options, browser, ownsBrowser, http, calls,
                   evaluation, completion, outcome, cliVars, exVars, navVars, tabVars>>

\* waitForHeadfulBrowser: the 120 s fallback timer without a terminal
HeadfulTimer ==
    /\ headful.timer = "armed"
    /\ headful' = Finish([headful EXCEPT !.timer = "fired"], "timer")
    /\ Resumed(headful')
    /\ UNCHANGED <<fn, entry, options, browser, ownsBrowser, http, calls,
                   evaluation, completion, outcome, cliVars, exVars, navVars, tabVars>>

\* the scenario settles with what its try block completed with
SettleCompletion ==
    outcome' = IF completion.kind = "return"
               THEN [kind |-> "returned", reason |-> "none"]
               ELSE [kind |-> "threw", reason |-> completion.reason]

\* browser.close() / browser.disconnect() is invoked: the browser is no
\* longer connected and emits 'disconnected'
Invoke(op) ==
    /\ calls' = Count(op)
    /\ browser' = [browser EXCEPT !.connected = FALSE]
    /\ headful' = Disconnected(headful)

\* the teardown operation op is carried out for a finally block: a rejected
\* close replaces the completion of the try block
TeardownInFinally(op) ==
    CASE op = "close" ->
           /\ Invoke("close")
           /\ (SettleCompletion \/ Settle([kind |-> "threw", reason |-> "driver"]))
      [] op = "disconnect" ->
           /\ Invoke("disconnect")
           /\ SettleCompletion
      [] op = "none" ->
           /\ UNCHANGED <<calls, browser, headful>>
           /\ SettleCompletion

\* the rest of the finally block of parseProduct / parseFirstProductFromRoot
Teardown ==
    /\ pc = "teardown"
    /\ TeardownInFinally(FinallyTeardown(Owns, browser.connected))
    /\ pc' = "done"
    /\ UNCHANGED <<fn, entry, options, ownsBrowser, http, evaluation, stdinTTY,
                   completion, cliVars, exVars, navVars, tabVars>>

\* the finally block of openGoogle
FinallyPlain ==
    /\ pc = "finallyPlain"
    /\ TeardownInFinally(PlainTeardown(Owns, browser.connected))
    /\ pc' = "done"
    /\ UNCHANGED <<fn, entry, options, ownsBrowser, http, evaluation, stdinTTY,
                   completion, cliVars, exVars, navVars, tabVars>>

\* the catch block of openProduct / openRoot / openFirstProductFromRoot:
\* close().catch(() => undefined) or disconnect, then throw error
Catch ==
    /\ pc = "catch"
    /\ LET op == PlainTeardown(Owns, browser.connected)
       IN  IF op = "none"
           THEN UNCHANGED <<calls, browser, headful>>
           ELSE Invoke(op)
    /\ SettleCompletion
    /\ pc' = "done"
    /\ UNCHANGED <<fn, entry, options, ownsBrowser, http, evaluation, stdinTTY,
                   completion, cliVars, exVars, navVars, tabVars>>

\* the rest of finishSimpleScenario, then 'return info'
FinishSimpleEnd ==
    /\ pc = "fsTeardown"
    /\ LET op == FinishSimpleTeardown(Owns, browser.connected, Opts.scenario)
       IN  CASE op = "close" ->
                  /\ Invoke("close")
                  /\ \/ /\ pc' = "done"
                        /\ completion' = [kind |-> "return", reason |-> "none"]
                        /\ Settle([kind |-> "returned", reason |-> "none"])
                     \/ Raise("driver")
             [] op = "disconnect" ->
                  /\ Invoke("disconnect")
                  /\ pc' = "done"
                  /\ completion' = [kind |-> "return", reason |-> "none"]
                  /\ Settle([kind |-> "returned", reason |-> "none"])
             [] op = "none" ->
                  /\ UNCHANGED <<calls, browser, headful>>
                  /\ pc' = "done"
                  /\ completion' = [kind |-> "return", reason |-> "none"]
                  /\ Settle([kind |-> "returned", reason |-> "none"])
    /\ UNCHANGED <<fn, entry, options, ownsBrowser, http, evaluation, stdinTTY,
                   cliVars, exVars, navVars, tabVars>>

-----------------------------------------------------------------------------
(* evaluatePage (the page-side extraction of the JSON-LD blocks) and       *)
(* normalizeProductInfo.  JSON values are tagged records.                  *)

JUndefined == [t |-> "undefined"]
JNull == [t |-> "null"]
JStr(s) == [t |-> "string", v |-> s]
JNum(n) == [t |-> "number", n |-> n]
JArr(items) == [t |-> "array", items |-> items]
JBool(b) == [t |-> "boolean", b |-> b]
\* an object with the fields the extraction reads: '@type', '@graph',
\* itemListElement, name, item (JUndefined for a field that is absent)
JObj(type, graph, itemListElement, name, item) ==
    [t |-> "object", type |-> type, graph |-> graph,
     itemListElement |-> itemListElement, name |-> name, item |-> item]

\* a string held by its characters, for the text whose characters the code
\* inspects (prices, headings, names); a character is a one-character string,
\* or a name in braces for a character outside ASCII
JText(chars) == [t |-> "string", chars |-> chars]
\* the characters of a string value; a string held as a word stands for
\* characters that are no digit, separator, whitespace or currency sign
Chars(value) ==
    IF "chars" \in DOMAIN value THEN value.chars
    ELSE IF value.v = "" THEN <<>> ELSE <<value.v>>

\* value[field] of JavaScript: undefined for a property that is not there
Get(value, field) ==
    IF value.t = "object" /\ field \in DOMAIN value THEN value[field] ELSE JUndefined

\* value === undefined || value === null
Nullish(value) == value.t \in {"undefined", "null"}

\* Boolean(value)
Truthy(value) ==
    CASE value.t \in {"undefined", "null"} -> FALSE
      [] value.t = "string" -> Chars(value) # <<>>
      [] value.t = "number" -> value.n # 0
      [] value.t = "boolean" -> value.b
      [] OTHER -> TRUE

\* the concatenation of a sequence of sequences
RECURSIVE Flat(_)
Flat(seqs) == IF seqs = <<>> THEN <<>> ELSE Head(seqs) \o Flat(Tail(seqs))

\* the elements of items that satisfy keep, in order
RECURSIVE Filter(_, _)
Filter(items, keep) ==
    IF items = <<>> THEN <<>>
    ELSE (IF keep[1] THEN <<items[1]>> ELSE <<>>) \o Filter(Tail(items), Tail(keep))

\* toArray: an array without its null and undefined entries, nothing for
\* null and undefined, a one-element array for any other value
toArray(value) ==
    CASE value.t = "array" ->
           Filter(value.items,
                  [i \in 1..Len(value.items) |-> ~Nullish(value.items[i])])
      [] Nullish(value) -> <<>>
      [] OTHER -> <<value>>

\* parseJsonLd: a script's text is blank, parses, parses only after the
\* whitespace clean-up, or does not parse at all
ScriptKinds == {"blank", "json", "jsonAfterCleanup", "invalid"}
Script(kind, value) == [kind |-> kind, value |-> value]
parseJsonLd(scripts) ==
    LET parses == [i \in 1..Len(scripts) |->
                      scripts[i].kind \in {"json", "jsonAfterCleanup"}]
        kept == Filter(scripts, parses)
    IN  [i \in 1..Len(kept) |-> kept[i].value]

\* flattenJsonLd: the object nodes of a parsed block, '@graph' unfolded
RECURSIVE flattenJsonLd(_)
flattenJsonLd(input) ==
    CASE ~Truthy(input) -> <<>>
      [] input.t = "array" ->
           Flat([i \in 1..Len(input.items) |-> flattenJsonLd(input.items[i])])
      [] input.t = "object" ->
           IF Truthy(Get(input, "graph")) THEN flattenJsonLd(Get(input, "graph"))
           ELSE <<input>>
      [] OTHER -> <<>>

jsonLdNodes(scripts) ==
    LET parsed == parseJsonLd(scripts)
    IN  Flat([i \in 1..Len(parsed) |-> flattenJsonLd(parsed[i])])

\* node['@type'] === type
HasType(node, type) == Get(node, "type") = JStr(type)

\* jsonLdNodes.find(node => node['@type'] === 'Product') ?? null
productNode(nodes) ==
    LET found == Filter(nodes, [i \in 1..Len(nodes) |-> HasType(nodes[i], "Product")])
    IN  IF found = <<>> THEN JNull ELSE found[1]

\* const candidate = element.name ?? nested?.name
Candidate(element) ==
    LET nested == Get(element, "item")
        name == Get(element, "name")
    IN  IF ~Nullish(name) THEN name
        ELSE IF Nullish(nested) THEN JUndefined ELSE Get(nested, "name")

\* elements.map(typeof candidate === 'string' ? candidate : null).filter(Boolean)
ElementLabels(elements) ==
    LET mapped == [i \in 1..Len(elements) |->
                      IF Candidate(elements[i]).t = "string"
                      THEN Candidate(elements[i]) ELSE JNull]
        kept == Filter(mapped, [i \in 1..Len(mapped) |-> Truthy(mapped[i])])
    IN  [i \in 1..Len(kept) |-> kept[i].v]

\* the flatMap callback: the labels of one BreadcrumbList node
ListLabels(node) == ElementLabels(toArray(Get(node, "itemListElement")))

\* an extraction that reads the first BreadcrumbList node only (find for filter)
evaluateBreadcrumbsFirstList(nodes) ==
    LET lists == Filter(nodes,
                        [i \in 1..Len(nodes) |-> HasType(nodes[i], "BreadcrumbList")])
    IN  IF lists = <<>> THEN <<>> ELSE ListLabels(lists[1])

\* jsonLdNodes.filter('@type' === 'BreadcrumbList').flatMap(...)
evaluateBreadcrumbs(nodes) ==
    LET lists == Filter(nodes,
                        [i \in 1..Len(nodes) |-> HasType(nodes[i], "BreadcrumbList")])
    IN  Flat([i \in 1..Len(lists) |-> ListLabels(lists[i])])

-----------------------------------------------------------------------------
(* parse-product-utils.ts: the record built from a snapshot.                *)

\* the characters \s and trim() take for whitespace
Whitespace == {" ", "{nbsp}"}
DigitChars == <<"0", "1", "2", "3", "4", "5", "6", "7", "8", "9">>
Digits == {DigitChars[i] : i \in 1..10}
DigitValue(c) == (CHOOSE i \in 1..10 : DigitChars[i] = c) - 1

\* String.prototype.trim on the characters of a string
RECURSIVE TrimStart(_)
TrimStart(chars) ==
    IF chars # <<>> /\ Head(chars) \in Whitespace THEN TrimStart(Tail(chars)) ELSE chars
RECURSIVE TrimEnd(_)
TrimEnd(chars) ==
    IF chars # <<>> /\ chars[Len(chars)] \in Whitespace
    THEN TrimEnd(SubSeq(chars, 1, Len(chars) - 1)) ELSE chars
Trim(chars) == TrimEnd(TrimStart(chars))
\* value.trim() as a string value
TrimStr(value) ==
    IF Trim(Chars(value)) = Chars(value) THEN value ELSE JText(Trim(Chars(value)))

\* .replace(/\s+/g, ' '): every run of whitespace becomes one space
RECURSIVE CollapseWhitespace(_)
CollapseWhitespace(chars) ==
    IF chars = <<>> THEN <<>>
    ELSE IF Head(chars) \in Whitespace
         THEN <<" ">> \o CollapseWhitespace(TrimStart(chars))
         ELSE <<Head(chars)>> \o CollapseWhitespace(Tail(chars))

\* a ?? b on values
NullishOr(a, b) == IF Nullish(a) THEN b ELSE a

\* a number with a fraction: n / 10^e, kept with the least e
JDec(n, e) == [t |-> "number", n |-> n, e |-> e]
RECURSIVE Decimal(_, _)
Decimal(n, e) ==
    IF e = 0 THEN JNum(n)
    ELSE IF n % 10 = 0 THEN Decimal(n \div 10, e - 1) ELSE JDec(n, e)
JNaN == [t |-> "NaN"]

\* the number a run of digits denotes
RECURSIVE DigitsValue(_)
DigitsValue(chars) ==
    IF chars = <<>> THEN 0
    ELSE 10 * DigitsValue(SubSeq(chars, 1, Len(chars) - 1))
         + DigitValue(chars[Len(chars)])

\* Number(text) for a text of digits, periods and commas: 0 for the empty
\* text, the decimal the text denotes, NaN for anything else
Number(chars) ==
    LET dots == {i \in 1..Len(chars) : chars[i] = "."}
        LastDot == CHOOSE i \in dots : TRUE
    IN  IF chars = <<>> THEN JNum(0)
        ELSE IF \E i \in 1..Len(chars) : chars[i] \notin Digits \cup {"."} THEN JNaN
        ELSE IF Cardinality(dots) > 1 \/ Cardinality(dots) = Len(chars) THEN JNaN
        ELSE Decimal(DigitsValue(SelectSeq(chars, LAMBDA c : c \in Digits)),
                     IF dots = {} THEN 0 ELSE Len(chars) - LastDot)

\* input.replace(/[^\d.,]/g, '')
Cleaned(chars) == SelectSeq(chars, LAMBDA c : c \in Digits \cup {".", ","})

\* .replace(',', '.'): a string pattern replaces its first occurrence
ReplaceComma(chars) ==
    LET commas == {i \in 1..Len(chars) : chars[i] = ","}
        first == CHOOSE i \in commas : \A j \in commas : i <= j
    IN  IF commas = {} THEN chars ELSE [chars EXCEPT ![first] = "."]

\* a toNumber that leaves the commas in the cleaned text
toNumberKeepingCommas(input) ==
    CASE input.t = "number" -> input
      [] input.t = "string" ->
           LET parsed == Number(Cleaned(Chars(input)))
           IN  IF parsed = JNaN THEN JNull ELSE parsed
      [] OTHER -> JNull

\* function toNumber(input: unknown): number | null
toNumber(input) ==
    CASE input.t = "number" -> input
      [] input.t = "string" ->
           LET parsed == Number(ReplaceComma(Cleaned(Chars(input))))
           IN  IF parsed = JNaN THEN JNull ELSE parsed
      [] OTHER -> JNull

\* function toString(input: unknown): string | null
toString(input) ==
    IF input.t = "string" /\ Chars(input) # <<>> THEN input ELSE JNull

\* function extractFirst<T>(input: unknown): T | null
extractFirst(input) ==
    IF input.t = "array"
    THEN IF Len(input.items) > 0 THEN input.items[1] ELSE JNull
    ELSE input

\* function extractStringArray(input: unknown): string[]
extractStringArray(input) ==
    IF input.t = "array"
    THEN LET mapped == [i \in 1..Len(input.items) |-> toString(input.items[i])]
         IN  Filter(mapped, [i \in 1..Len(mapped) |-> Truthy(mapped[i])])
    ELSE IF Truthy(toString(input)) THEN <<toString(input)>> ELSE <<>>

\* the first truthy element of a sequence of values, null when there is none
FirstTruthy(values) ==
    LET kept == Filter(values, [i \in 1..Len(values) |-> Truthy(values[i])])
    IN  IF kept = <<>> THEN JNull ELSE kept[1]

\* an extractBrand that returns a string brand as it is
RECURSIVE extractBrandUntrimmed(_)
extractBrandUntrimmed(brand) ==
    CASE ~Truthy(brand) -> JNull
      [] brand.t = "string" -> brand
      [] brand.t = "array" ->
           FirstTruthy([i \in 1..Len(brand.items) |->
                           extractBrandUntrimmed(brand.items[i])])
      [] brand.t = "object" -> toString(Get(brand, "name"))
      [] OTHER -> JNull

\* function extractBrand(brand: unknown): string | null
RECURSIVE extractBrand(_)
extractBrand(brand) ==
    CASE ~Truthy(brand) -> JNull
      [] brand.t = "string" ->
           IF Trim(Chars(brand)) = <<>> THEN JNull ELSE TrimStr(brand)
      [] brand.t = "array" ->
           FirstTruthy([i \in 1..Len(brand.items) |-> extractBrand(brand.items[i])])
      [] brand.t = "object" -> toString(Get(brand, "name"))
      [] OTHER -> JNull

\* function extractSeller(seller: unknown): string | null
RECURSIVE extractSeller(_)
extractSeller(seller) ==
    CASE ~Truthy(seller) -> JNull
      [] seller.t = "string" ->
           IF Trim(Chars(seller)) = <<>> THEN JNull ELSE TrimStr(seller)
      [] seller.t = "array" ->
           FirstTruthy([i \in 1..Len(seller.items) |-> extractSeller(seller.items[i])])
      [] seller.t = "object" -> toString(Get(seller, "name"))
      [] OTHER -> JNull

\* function detectCurrencySymbol(priceText: string | null): string | null
detectCurrencySymbol(text) ==
    LET Includes1(c) == \E i \in 1..Len(Chars(text)) : Chars(text)[i] = c
    IN  CASE ~Truthy(text) -> JNull
          [] Includes1("{ruble}") -> JStr("RUB")
          [] Includes1("$") -> JStr("USD")
          [] Includes1("{euro}") -> JStr("EUR")
          [] OTHER -> JNull

\* {} : an object without properties
EmptyObject == [t |-> "object"]
\* the error a property read of null or undefined throws
TypeError == [t |-> "TypeError"]

\* a normalisation that reads the product of the snapshot as it is
ProductAsIs(product) == product
\* const product = evaluation.product ?? {}
ProductOrEmpty(product) == NullishOr(product, EmptyObject)

\* the values whose property normalizeProductInfo reads with a plain [...]:
\* the product, and the aggregate rating once it has been found truthy
StrictReceivers(snapshot) ==
    LET product == ProductOrEmpty(snapshot.product)
        aggregateRating == extractFirst(Get(product, "aggregateRating"))
    IN  <<product>> \o (IF Truthy(aggregateRating) THEN <<aggregateRating>> ELSE <<>>)

\* the record normalizeProductInfo builds when no property read throws
ProductInfo(snapshot, url) ==
    LET product == ProductOrEmpty(snapshot.product)
        offers == extractFirst(Get(product, "offers"))
        aggregateRating == extractFirst(Get(product, "aggregateRating"))
        images == extractStringArray(Get(product, "image"))
        priceValue == toNumber(NullishOr(Get(offers, "price"), snapshot.priceText))
    IN  [title |-> NullishOr(toString(Get(product, "name")),
                             NullishOr(snapshot.heading, JStr("Unknown product"))),
         url |-> url,
         sku |-> NullishOr(toString(Get(product, "sku")),
                           NullishOr(toString(Get(product, "mpn")), JNull)),
         brand |-> extractBrand(Get(product, "brand")),
         description |-> toString(Get(product, "description")),
         price |-> [value |-> priceValue,
                    currency |-> NullishOr(toString(Get(offers, "priceCurrency")),
                                           detectCurrencySymbol(snapshot.priceText)),
                    displayText |-> snapshot.priceText,
                    availability |-> toString(Get(offers, "availability"))],
         rating |-> IF Truthy(aggregateRating)
                    THEN [t |-> "object",
                          value |-> toNumber(Get(aggregateRating, "ratingValue")),
                          reviewCount |->
                              toNumber(NullishOr(Get(aggregateRating, "reviewCount"),
                                                 Get(aggregateRating, "ratingCount")))]
                    ELSE JNull,
         seller |-> extractSeller(Get(offers, "seller")),
         breadcrumbs |-> snapshot.breadcrumbs,
         images |-> images,
         rawPriceText |-> snapshot.priceText]

\* normalizeProductInfo({ evaluation, url }): the record, or the TypeError of
\* a property read of null or undefined
normalizeProductInfo(snapshot, url) ==
    IF \E i \in 1..Len(StrictReceivers(snapshot)) : Nullish(StrictReceivers(snapshot)[i])
    THEN TypeError
    ELSE ProductInfo(snapshot, url)

\* a normalisation that takes the breadcrumbs out of the snapshot it reads
SnapshotConsumed(snapshot) == [snapshot EXCEPT !.breadcrumbs = <<>>]
\* what normalizeProductInfo leaves of the snapshot it was given: it assigns
\* to no property of evaluation and calls no mutating method on its arrays
SnapshotAfterNormalize(snapshot) == snapshot

\* the elements of the page the snapshot reads text from: the h1 of the
\* webProductHeading widget, the first h1, the webPrice and the webSale widget,
\* each absent or present with its textContent
Dom(widgetHeading, h1, webPrice, webSale) ==
    [widgetHeading |-> widgetHeading, h1 |-> h1, webPrice |-> webPrice,
     webSale |-> webSale]

\* querySelector(...)?.textContent?.trim(): undefined without the element
TrimmedText(element) ==
    IF IsDef(element) THEN JText(Trim(Val(element))) ELSE JUndefined

\* const heading = widget h1 text ?? h1 text ?? null
heading(dom) ==
    NullishOr(TrimmedText(dom.widgetHeading), NullishOr(TrimmedText(dom.h1), JNull))

\* const priceText = priceRoot ? (textContent?.replace(/\s+/g, ' ').trim() ?? null) : null
priceText(dom) ==
    LET priceRoot == Coalesce(dom.webPrice, dom.webSale)
    IN  IF IsDef(priceRoot) THEN JText(Trim(CollapseWhitespace(Val(priceRoot))))
        ELSE JNull

\* the snapshot evaluatePage returns
evaluatePage(scripts, dom) ==
    [heading |-> heading(dom),
     priceText |-> priceText(dom),
     product |-> productNode(jsonLdNodes(scripts)),
     breadcrumbs |-> evaluateBreadcrumbs(jsonLdNodes(scripts))]

-----------------------------------------------------------------------------
(* The pages the extraction is run on.                                     *)

MaxItems == 2

NoFields == JObj(JUndefined, JUndefined, JUndefined, JUndefined, JUndefined)
\* a ListItem with a direct name and with a name on the nested item
ListItem(name, nestedName) ==
    [NoFields EXCEPT !.type = JStr("ListItem"), !.name = name,
                     !.item = [NoFields EXCEPT !.name = nestedName]]

\* list items: labelled directly, through the nested item, by both, by an
\* empty string, by a number, by nothing; and array entries that are no objects
ItemsA ==
    {ListItem(JStr("A"), JUndefined), ListItem(JStr("B"), JStr("X")),
     ListItem(JUndefined, JStr("B")), ListItem(JNull, JStr("A")),
     ListItem(JStr(""), JStr("X")), ListItem(JNum(5), JStr("X")),
     ListItem(JUndefined, JUndefined), JNull, JStr("A")}
\* the second list of a page
ListsB ==
    {<<>>,
     <<ListItem(JStr("A"), JUndefined), ListItem(JStr("C"), JUndefined)>>,
     <<[NoFields EXCEPT !.name = JStr("B")], ListItem(JUndefined, JStr("C"))>>}

BreadcrumbList(items) ==
    [NoFields EXCEPT !.type = JStr("BreadcrumbList"), !.itemListElement = items]
ProductNode == [NoFields EXCEPT !.type = JStr("Product"), !.name = JStr("P")]
Graph(nodes) == [NoFields EXCEPT !.graph = JArr(nodes)]

\* the ways two breadcrumb lists a and b are laid out in a page
Pages(a, b) ==
    {<<Script("json", BreadcrumbList(JArr(a))), Script("json", ProductNode),
       Script("json", BreadcrumbList(JArr(b)))>>,
     <<Script("blank", JNull), Script("invalid", JNull),
       Script("jsonAfterCleanup", JArr(<<BreadcrumbList(JArr(a)), JNull,
                                         BreadcrumbList(JArr(b))>>))>>,
     <<Script("json", Graph(<<ProductNode, BreadcrumbList(JArr(a)),
                              Graph(<<BreadcrumbList(JArr(b))>>)>>))>>,
     <<Script("json", BreadcrumbList(IF a = <<>> THEN JUndefined ELSE a[1])),
       Script("json", [BreadcrumbList(JArr(b)) EXCEPT !.type = JStr("ItemList")]),
       Script("json", BreadcrumbList(JArr(b)))>>}

SeqsOf(items, n) == UNION {[1..k -> items] : k \in 0..n}

Documents ==
    UNION {Pages(a, b) : a \in SeqsOf(ItemsA, MaxItems), b \in ListsB}

-----------------------------------------------------------------------------
(* The product pages the normalisation is run on.                          *)

MaxChars == 3

\* an object with the given properties
Obj(fields) == [t |-> "object"] @@ fields
\* a Product node with the given properties
Product(fields) == Obj([type |-> JStr("Product")] @@ fields)

\* a page without the heading and price elements
PlainDom == Dom(Undefined, Undefined, Undefined, Undefined)
RublePrice == <<"7", " ", "9", "9", "9", " ", "{ruble}">>
DollarPrice == <<"$", "1", "9", ".", "9", "9">>
\* a page with a heading and a price in roubles
HeadingPriceDom == Dom(Some(<<"H">>), Undefined, Some(RublePrice), Undefined)

\* the JSON shapes a property of the product node can have
Shapes ==
    {JNull, JBool(TRUE), JBool(FALSE), JNum(0), JNum(5), JStr(""), JStr("Acme"),
     JText(<<" ">>), JArr(<<>>), JArr(<<JNull>>),
     JArr(<<JNum(5), Obj([name |-> JStr("Acme")])>>), EmptyObject,
     Obj([name |-> JStr("Acme"), price |-> JText(<<"1", ",", "5">>),
          priceCurrency |-> JStr("EUR"), seller |-> JText(<<" ", "S">>),
          ratingValue |-> JText(<<"4", ".", "5">>), ratingCount |-> JNum(7)])}

\* a product node with all the properties the record is built from
BaseProduct ==
    [name |-> JStr("Phone"), sku |-> JStr("S1"), mpn |-> JStr("M1"),
     brand |-> Obj([name |-> JStr("Acme")]), description |-> JStr("Text"),
     offers |-> Obj([price |-> JNum(100), priceCurrency |-> JStr("EUR"),
                     availability |-> JStr("InStock"), seller |-> JStr("Shop")]),
     aggregateRating |-> Obj([ratingValue |-> JDec(45, 1), reviewCount |-> JNum(3)]),
     image |-> JArr(<<JStr("I1"), JNull, JStr("I2")>>)]
ShapedFields == {"offers", "aggregateRating", "brand", "image"}

\* product nodes with one property, or every property, of each shape; the
\* seller takes the shapes through the offers it is a property of
ShapedProducts ==
    {Product([BaseProduct EXCEPT ![f] = shape]) : f \in ShapedFields, shape \in Shapes}
    \cup {Product([BaseProduct EXCEPT !.offers = Obj([seller |-> shape])]) :
             shape \in Shapes}
    \cup {Product([f \in DOMAIN BaseProduct |-> shape]) : shape \in Shapes}
    \cup {Product([f \in DOMAIN BaseProduct \ {g} |-> BaseProduct[f]]) :
             g \in DOMAIN BaseProduct}

\* product nodes with an explicit name, sku, brand, price and currency
ExplicitProducts ==
    {Product([name |-> name, sku |-> JStr("S1"), brand |-> brand,
              offers |-> Obj([price |-> price, priceCurrency |-> JStr("EUR")])]) :
        name \in {JStr("Phone"), JText(<<" ", "P">>)},
        brand \in {JStr("Acme"), JText(<<" ", "A", " ">>), JText(<<" ">>),
                   Obj([name |-> JStr("Acme")]), JArr(<<JStr("Acme")>>)},
        price \in {JNum(100), JDec(1999, 2), JText(<<"1", "9", ".", "9", "9">>)}}

\* the names a product node can carry
Names == {JUndefined, JNull, JStr(""), JNum(5), JStr("Phone")}
NamedProducts ==
    {Product(IF name = JUndefined THEN [sku |-> JStr("S1")]
             ELSE [name |-> name, sku |-> JStr("S1")]) : name \in Names}
\* the text of a heading element: none, empty, whitespace only, a word, a
\* word in whitespace
HeadingTexts == {Undefined, Some(<<>>), Some(<<" ", "{nbsp}">>), Some(<<"H">>),
                 Some(<<" ", "H", " ">>)}
HeadingDoms ==
    {Dom(widget, h1, Undefined, Undefined) : widget \in HeadingTexts, h1 \in HeadingTexts}

\* the characters of a price text, and the price texts of at most n characters
PriceChars == {"1", "0", ",", ".", " ", "$"}
PriceTexts == SeqsOf(PriceChars, MaxChars) \cup {RublePrice, DollarPrice}
PriceDoms ==
    {Dom(Undefined, Undefined, Some(text), Undefined) : text \in PriceTexts}
    \cup {Dom(Undefined, Undefined, Undefined, Some(text)) :
             text \in {RublePrice, DollarPrice, <<" ", "1", " ", " ", "5">>}}
\* product nodes without a structured price
UnpricedProducts ==
    {JNull, Product([name |-> JStr("Phone")]),
     Product([name |-> JStr("Phone"), offers |-> Obj([availability |-> JStr("InStock")])])}

\* the pages: a product node, or none, and the elements of the page
ProductPages ==
    (ShapedProducts \X {PlainDom, HeadingPriceDom})
    \cup (ExplicitProducts \X {HeadingPriceDom})
    \cup ((NamedProducts \cup {JNull}) \X HeadingDoms)
    \cup (UnpricedProducts \X PriceDoms)

\* the JSON-LD scripts of a page with the given product node
ProductDocument(product) ==
    IF product = JNull THEN <<Script("blank", JNull)>>
    ELSE <<Script("json", Graph(<<BreadcrumbList(JArr(<<ListItem(JStr("A"), JUndefined)>>)),
                                  product>>))>>

NoSnapshot == [heading |-> JNull, priceText |-> JNull, product |-> JNull,
               breadcrumbs |-> <<>>]
\* no record yet
NoRecord == JUndefined

\* the properties a snapshot can lose, and the properties of the record
\* that are computed from each
SnapshotFields == {"heading", "priceText", "product"}
ProductFields ==
    {"name", "sku", "mpn", "brand", "description", "offers", "aggregateRating", "image"}
DerivedFrom(field) ==
    CASE field = "heading" -> {"title"}
      [] field = "priceText" -> {"price", "rawPriceText"}
      [] field = "product" ->
           {"title", "sku", "brand", "description", "price", "rating", "seller", "images"}
      [] field = "name" -> {"title"}
      [] field \in {"sku", "mpn"} -> {"sku"}
      [] field = "brand" -> {"brand"}
      [] field = "description" -> {"description"}
      [] field = "offers" -> {"price", "seller"}
      [] field = "aggregateRating" -> {"rating"}
      [] field = "image" -> {"images"}
\* the properties present in a snapshot
Present(snapshot) ==
    {f \in SnapshotFields : ~Nullish(snapshot[f])}
    \cup (IF snapshot.product.t = "object"
          THEN DOMAIN snapshot.product \cap ProductFields ELSE {})
\* the snapshot without one of its properties
Without(snapshot, field) ==
    IF field \in SnapshotFields THEN [snapshot EXCEPT ![field] = JUndefined]
    ELSE [snapshot EXCEPT !.product =
             [f \in DOMAIN snapshot.product \ {field} |-> snapshot.product[f]]]

ExIdle ==
    /\ exPc = "start"
    /\ exDoc = <<>>
    /\ exDom = PlainDom
    /\ exSnapshot = NoSnapshot
    /\ exRecord = NoRecord
    /\ exAgain = NoRecord
    /\ exRemoved = ""
    /\ exReduced = NoRecord

\* let evaluation = await evaluatePage(), on a page of breadcrumb lists
EvaluatePage ==
    /\ exPc = "start"
    /\ \E doc \in Documents :
          /\ exDoc' = doc
          /\ exDom' = PlainDom
          /\ exSnapshot' = evaluatePage(doc, PlainDom)
    /\ exPc' = "evaluated"
    /\ UNCHANGED <<exRecord, exAgain, exRemoved, exReduced, cliVars, runVars, navVars, tabVars>>

\* let evaluation = await evaluatePage(), on a product page
EvaluateProductPage ==
    /\ exPc = "start"
    /\ \E page \in ProductPages :
          /\ exDoc' = ProductDocument(page[1])
          /\ exDom' = page[2]
          /\ exSnapshot' = evaluatePage(ProductDocument(page[1]), page[2])
    /\ exPc' = "evaluated"
    /\ UNCHANGED <<exRecord, exAgain, exRemoved, exReduced, cliVars, runVars, navVars, tabVars>>

\* return normalizeProductInfo({ evaluation, url: options.url })
NormalizeProductInfo ==
    /\ exPc = "evaluated"
    /\ exRecord' = normalizeProductInfo(exSnapshot, DEFAULT_PRODUCT_URL)
    /\ exSnapshot' = SnapshotAfterNormalize(exSnapshot)
    /\ exPc' = "normalized"
    /\ UNCHANGED <<exDoc, exDom, exAgain, exRemoved, exReduced, cliVars, runVars, navVars, tabVars>>

\* normalizeProductInfo called once more with the same snapshot and url
NormalizeAgain ==
    /\ exPc = "normalized"
    /\ exAgain' = normalizeProductInfo(exSnapshot, DEFAULT_PRODUCT_URL)
    /\ exSnapshot' = SnapshotAfterNormalize(exSnapshot)
    /\ exPc' = "again"
    /\ UNCHANGED <<exDoc, exDom, exRecord, exRemoved, exReduced, cliVars, runVars, navVars, tabVars>>

\* normalizeProductInfo called with the snapshot less one of its properties
NormalizeWithout ==
    /\ exPc = "normalized"
    /\ \E field \in Present(exSnapshot) :
          /\ exRemoved' = field
          /\ exReduced' = normalizeProductInfo(Without(exSnapshot, field),
                                               DEFAULT_PRODUCT_URL)
    /\ exPc' = "reduced"
    /\ UNCHANGED <<exDoc, exDom, exSnapshot, exRecord, exAgain, cliVars, runVars, navVars, tabVars>>

-----------------------------------------------------------------------------
(* scenario-utils.ts: navigateWithAnchor, the variant that opens a new tab, *)
(* run against the browser's target notifications and the timeout timer.   *)

MaxOtherTargets == 2

\* a navigateWithAnchor that clicks before it listens
NavProgramClickFirst ==
    <<"blank", "click", "clickPending", "listen", "timer", "await", "front", "load">>
\* the statements of navigateWithAnchor in program order: goto about:blank,
\* browser.on('targetcreated'), setTimeout, page.evaluate (the click is
\* dispatched, then the call returns), await newTargetPromise, the load wait
NavProgram ==
    <<"blank", "listen", "timer", "click", "clickPending", "await", "front", "load">>
NavNext(label) ==
    LET i == CHOOSE i \in 1..Len(NavProgram) : NavProgram[i] = label
    IN  IF i = Len(NavProgram) THEN "returned" ELSE NavProgram[i + 1]

NavIdle ==
    /\ navPc = NavProgram[1]
    /\ navListener = "none"
    /\ navTimer = "none"
    /\ navClick = FALSE
    /\ navPromise = "pending"
    /\ navObserved = "none"
    /\ navOthers = 0
    /\ navResult = "none"
    /\ navWarnings = 0
    /\ navCaller = "none"
    /\ navRead = "none"

\* try { await page.goto('about:blank') } catch { logger.warn(...) }
NavGotoBlank ==
    /\ navPc = "blank"
    /\ navPc' = NavNext(navPc)
    /\ \E failed \in BOOLEAN : navWarnings' = navWarnings + (IF failed THEN 1 ELSE 0)
    /\ UNCHANGED <<navListener, navTimer, navClick, navPromise, navObserved,
                   navOthers, navResult, navCaller, navRead, cliVars, runVars, exVars, tabVars>>

\* browser.on('targetcreated', onTarget)
NavListen ==
    /\ navPc = "listen"
    /\ navListener' = "on"
    /\ navPc' = NavNext(navPc)
    /\ UNCHANGED <<navTimer, navClick, navPromise, navObserved, navOthers,
                   navResult, navWarnings, navCaller, navRead, cliVars, runVars, exVars, tabVars>>

\* const timer = setTimeout(..., timeout)
NavSetTimer ==
    /\ navPc = "timer"
    /\ navTimer' = "armed"
    /\ navPc' = NavNext(navPc)
    /\ UNCHANGED <<navListener, navClick, navPromise, navObserved, navOthers,
                   navResult, navWarnings, navCaller, navRead, cliVars, runVars, exVars, tabVars>>

\* await page.evaluate(...): the page runs a.click(), or the evaluation fails
\* before it does
NavDispatchClick ==
    /\ navPc = "click"
    /\ \/ navClick' = TRUE /\ navPc' = NavNext(navPc)
       \/ navClick' = FALSE /\ navPc' = "threw"
    /\ UNCHANGED <<navListener, navTimer, navPromise, navObserved, navOthers,
                   navResult, navWarnings, navCaller, navRead, cliVars, runVars, exVars, tabVars>>

\* page.evaluate returns
NavEvaluateReturns ==
    /\ navPc = "clickPending"
    /\ navPc' = NavNext(navPc)
    /\ UNCHANGED <<navListener, navTimer, navClick, navPromise, navObserved,
                   navOthers, navResult, navWarnings, navCaller, navRead, cliVars, runVars, exVars, tabVars>>

\* the browser announces the page the click has opened: onTarget, when it is
\* registered, removes itself and resolves the promise
BrowserCreatesPage ==
    /\ navClick
    /\ navObserved = "none"
    /\ navPc \notin {"returned", "threw"}
    /\ CASE navListener = "on" ->
              /\ navObserved' = "observed"
              /\ navListener' = "off"
              /\ navPromise' = IF navPromise = "pending" THEN "resolved" ELSE navPromise
         [] navListener = "off" ->
              /\ navObserved' = "late"
              /\ UNCHANGED <<navListener, navPromise>>
         [] navListener = "none" ->
              /\ navObserved' = "lost"
              /\ UNCHANGED <<navListener, navPromise>>
    /\ UNCHANGED <<navPc, navTimer, navClick, navOthers, navResult, navWarnings, navCaller, navRead, cliVars,
                   runVars, exVars, tabVars>>

\* the browser announces a target that is no page: onTarget leaves it alone
BrowserCreatesOther ==
    /\ navOthers < MaxOtherTargets
    /\ navPc \notin {"returned", "threw"}
    /\ navOthers' = navOthers + 1
    /\ UNCHANGED <<navPc, navListener, navTimer, navClick, navPromise,
                   navObserved, navResult, navWarnings, navCaller, navRead, cliVars, runVars, exVars, tabVars>>

\* the timer fires: browser.off('targetcreated', onTarget); rejectTarget(...)
NavTimeout ==
    /\ navTimer = "armed"
    /\ navTimer' = "fired"
    /\ navListener' = IF navListener = "on" THEN "off" ELSE navListener
    /\ navPromise' = IF navPromise = "pending" THEN "rejected" ELSE navPromise
    /\ UNCHANGED <<navPc, navClick, navObserved, navOthers, navResult, navWarnings, navCaller, navRead, cliVars,
                   runVars, exVars, tabVars>>

\* const target = await newTargetPromise; clearTimeout(timer);
\* newPage = await target.page(); a rejection or a target without a page is
\* caught: logger.warn(...); return null
NavAwaitTarget ==
    /\ navPc = "await"
    /\ navPromise # "pending"
    /\ IF navPromise = "resolved"
       THEN /\ navTimer' = IF navTimer = "armed" THEN "cleared" ELSE navTimer
            /\ \/ /\ navPc' = NavNext(navPc)
                  /\ UNCHANGED <<navResult, navWarnings>>
               \/ /\ navPc' = "returned"
                  /\ navResult' = "null"
                  /\ navWarnings' = navWarnings + 1
       ELSE /\ navPc' = "returned"
            /\ navResult' = "null"
            /\ navWarnings' = navWarnings + 1
            /\ navTimer' = navTimer
    /\ UNCHANGED <<navListener, navClick, navPromise, navObserved, navOthers,
                   navCaller, navRead, cliVars, runVars, exVars, tabVars>>

\* try { await newPage.bringToFront() } catch { }
NavBringToFront ==
    /\ navPc = "front"
    /\ navPc' = NavNext(navPc)
    /\ UNCHANGED <<navListener, navTimer, navClick, navPromise, navObserved,
                   navOthers, navResult, navWarnings, navCaller, navRead, cliVars, runVars, exVars, tabVars>>

\* waitForNavigation, on its timeout waitForFunction, on its timeout
\* logger.warn(...); return newPage
NavLoad ==
    /\ navPc = "load"
    /\ navPc' = NavNext(navPc)
    /\ navResult' = "page"
    /\ \E loaded \in BOOLEAN : navWarnings' = navWarnings + (IF loaded THEN 0 ELSE 1)
    /\ UNCHANGED <<navListener, navTimer, navClick, navPromise, navObserved,
                   navOthers, navCaller, navRead, cliVars, runVars, exVars, tabVars>>

\* the statement after 'await navigateWithAnchor(...)' in the scenario f that
\* made the call: the two scenarios that test the result go on with the page
\* it returned, or throw on null; the others have discarded the result and
\* go on with typedPage, the page they passed in
NavCallerReads ==
    /\ navPc = "returned"
    /\ navCaller = "none"
    /\ \E f \in Scenarios :
          /\ navCaller' = f
          /\ navRead' = IF ChecksNavigation(f)
                        THEN (IF navResult = "page" THEN "returned" ELSE "none")
                        ELSE "original"
    /\ UNCHANGED <<navPc, navListener, navTimer, navClick, navPromise, navObserved,
                   navOthers, navResult, navWarnings, cliVars, runVars, exVars, tabVars>>

-----------------------------------------------------------------------------
(* scenario-utils.ts: navigateWithAnchor, the variant that stays in the    *)
(* same tab, awaited by a scenario and run against the page's navigation.  *)

\* the scenario functions that await navigateWithAnchor(typedPage, ...) and
\* go on with typedPage
TabCallers ==
    {"parseProduct", "openGoogle", "openRoot", "openProduct", "openFirstProductFromRoot"}

\* a navigateWithAnchor whose catch block throws the timeout on
TabTimeoutRethrown == "threw"
\* try { await page.waitForNavigation(...) } catch (error) { logger.warn(...) }
\* and the function ends
TabAfterTimeout == "returned"

TabIdle ==
    /\ tabPc = "idle"
    /\ tabCalls = 0
    /\ tabCaller = "none"
    /\ tabLocation = "initial"
    /\ tabBlank = "none"
    /\ tabClicked = FALSE
    /\ tabWait = "none"
    /\ tabWarnings = 0
    /\ tabRead = "none"

\* await navigateWithAnchor(typedPage, url, timeout) in a scenario
TabCall ==
    /\ tabPc = "idle"
    /\ \E f \in TabCallers : tabCaller' = f
    /\ tabCalls' = 1
    /\ tabPc' = "blank"
    /\ UNCHANGED <<tabLocation, tabBlank, tabClicked, tabWait, tabWarnings, tabRead,
                   cliVars, runVars, exVars, navVars>>

\* await page.goto('about:blank', ...): outside any try block
TabGotoBlank ==
    /\ tabPc = "blank"
    /\ \/ /\ tabBlank' = "loaded"
          /\ tabLocation' = "about:blank"
          /\ tabPc' = "delay"
       \/ /\ tabBlank' = "failed"
          /\ tabPc' = "threw"
          /\ UNCHANGED tabLocation
    /\ UNCHANGED <<tabCalls, tabCaller, tabClicked, tabWait, tabWarnings, tabRead,
                   cliVars, runVars, exVars, navVars>>

\* await new Promise((resolve) => setTimeout(resolve, 1_000))
TabDelay ==
    /\ tabPc = "delay"
    /\ tabPc' = "click"
    /\ UNCHANGED <<tabCalls, tabCaller, tabLocation, tabBlank, tabClicked, tabWait, tabWarnings,
                   tabRead, cliVars, runVars, exVars, navVars>>

\* await page.evaluate(...): the page runs anchor.click(), or the evaluation
\* fails before it does
TabDispatchClick ==
    /\ tabPc = "click"
    /\ \/ tabClicked' = TRUE /\ tabPc' = "waitNav"
       \/ tabClicked' = FALSE /\ tabPc' = "threw"
    /\ UNCHANGED <<tabCalls, tabCaller, tabLocation, tabBlank, tabWait, tabWarnings, tabRead,
                   cliVars, runVars, exVars, navVars>>

\* page.waitForNavigation({ waitUntil: 'domcontentloaded', timeout }) is called
TabWaitForNavigation ==
    /\ tabPc = "waitNav"
    /\ tabWait' = "waiting"
    /\ tabPc' = "waiting"
    /\ UNCHANGED <<tabCalls, tabCaller, tabLocation, tabBlank, tabClicked, tabWarnings, tabRead,
                   cliVars, runVars, exVars, navVars>>

\* the page the click was dispatched in loads the target: a wait that is in
\* progress resolves
TabPageNavigates ==
    /\ tabClicked
    /\ tabLocation # "target"
    /\ tabPc \notin {"read", "handled"}
    /\ tabLocation' = "target"
    /\ tabWait' = IF tabWait = "waiting" THEN "resolved" ELSE tabWait
    /\ UNCHANGED <<tabPc, tabCalls, tabCaller, tabBlank, tabClicked, tabWarnings, tabRead,
                   cliVars, runVars, exVars, navVars>>

\* the timeout of waitForNavigation passes
TabNavigationTimeout ==
    /\ tabWait = "waiting"
    /\ tabWait' = "timedOut"
    /\ UNCHANGED <<tabPc, tabCalls, tabCaller, tabLocation, tabBlank, tabClicked, tabWarnings,
                   tabRead, cliVars, runVars, exVars, navVars>>

\* the awaited wait settles
TabWaitSettles ==
    /\ tabPc = "waiting"
    /\ \/ /\ tabWait = "resolved"
          /\ tabPc' = "returned"
          /\ UNCHANGED tabWarnings
       \/ /\ tabWait = "timedOut"
          /\ tabWarnings' = tabWarnings + 1
          /\ tabPc' = TabAfterTimeout
    /\ UNCHANGED <<tabCalls, tabCaller, tabLocation, tabBlank, tabClicked, tabWait, tabRead,
                   cliVars, runVars, exVars, navVars>>

\* the statement after the await in the scenario: typedPage.evaluate(...),
\* buildSimpleInfo(typedPage, ...), typedPage.waitForSelector(...)
TabCallerReads ==
    /\ tabPc = "returned"
    /\ tabRead' = tabLocation
    /\ tabPc' = "read"
    /\ UNCHANGED <<tabCalls, tabCaller, tabLocation, tabBlank, tabClicked, tabWait, tabWarnings,
                   cliVars, runVars, exVars, navVars>>

\* openFirstProductFromRoot after its first call: the product link it has
\* read from the page is the target of a second call, and without a link it
\* throws; a page that is not on the root page has no product link
TabCallAgain ==
    /\ tabPc = "read"
    /\ tabCaller = "openFirstProductFromRoot"
    /\ tabCalls = 1
    /\ \/ /\ tabRead = "target"
          /\ tabPc' = "blank"
          /\ tabCalls' = 2
          /\ tabBlank' = "none"
          /\ tabClicked' = FALSE
          /\ tabWait' = "none"
       \/ /\ tabPc' = "threw"
          /\ UNCHANGED <<tabCalls, tabBlank, tabClicked, tabWait>>
    /\ UNCHANGED <<tabCaller, tabLocation, tabWarnings, tabRead,
                   cliVars, runVars, exVars, navVars>>

\* the exception leaves the try block of the scenario
TabCallerHandles ==
    /\ tabPc = "threw"
    /\ tabPc' = "handled"
    /\ UNCHANGED <<tabCalls, tabCaller, tabLocation, tabBlank, tabClicked, tabWait, tabWarnings,
                   tabRead, cliVars, runVars, exVars, navVars>>

-----------------------------------------------------------------------------
(* Specifications.                                                         *)

Init == CliIdle /\ Idle /\ ExIdle /\ NavIdle /\ TabIdle

\* a scenario run, from the call of the scenario function until it settles
Next ==
    \/ ServiceRun \/ DirectCall
    \/ AcquireBrowser \/ HttpResponse \/ HttpError \/ HttpTimeout
    \/ Connect \/ Launch \/ BrowserDisconnects
    \/ DriverStep \/ SettleDelay \/ Authenticate \/ Navigate \/ FindLink
    \/ WaitForSelector
    \/ Evaluate \/ UserSignal \/ WaitNavigation \/ Reevaluate \/ Normalize
    \/ Finally \/ FinishSimple
    \/ HeadfulDisconnected \/ HeadfulInput \/ HeadfulTimer
    \/ Teardown \/ FinallyPlain \/ Catch \/ FinishSimpleEnd

Spec == Init /\ [][Next]_vars

\* the steps that happen when the driver's calls return and the timers fire:
\* every step of a run but the ones that wait for the user (a line of
\* terminal input, the closing of the browser window)
DriverOrTimerStep ==
    \/ AcquireBrowser \/ HttpResponse \/ HttpError \/ HttpTimeout
    \/ Connect \/ Launch
    \/ DriverStep \/ SettleDelay \/ Authenticate \/ Navigate \/ FindLink
    \/ WaitForSelector
    \/ Evaluate \/ (UserSignal /\ stdinTTY = Some(FALSE)) \/ WaitNavigation
    \/ Reevaluate \/ Normalize
    \/ Finally \/ FinishSimple \/ HeadfulTimer
    \/ Teardown \/ FinallyPlain \/ Catch \/ FinishSimpleEnd

\* a scenario run in which awaited driver calls return and timers fire
SpecTerminating == Init /\ [][Next]_vars /\ WF_vars(DriverOrTimerStep)

\* the command line: parseCli and what bootstrap() does with its result
NextCli == CliParse \/ CliExitError \/ CliExitHelp \/ CliRun

SpecCli == Init /\ [][NextCli]_vars

\* the extraction of one page
NextExtract == EvaluatePage \/ NormalizeProductInfo

SpecExtract == Init /\ [][NextExtract]_vars

\* the normalisation of one product page
NextNormalize ==
    EvaluateProductPage \/ NormalizeProductInfo \/ NormalizeAgain \/ NormalizeWithout

SpecNormalize == Init /\ [][NextNormalize]_vars

\* one call of navigateWithAnchor, the browser and the timer
NextNavigate ==
    \/ NavGotoBlank \/ NavListen \/ NavSetTimer \/ NavDispatchClick
    \/ NavEvaluateReturns \/ NavAwaitTarget \/ NavBringToFront \/ NavLoad
    \/ BrowserCreatesPage \/ BrowserCreatesOther \/ NavTimeout
    \/ NavCallerReads

SpecNavigate == Init /\ [][NextNavigate]_vars

\* one call of the same-tab navigateWithAnchor by a scenario, and the page
NextSameTab ==
    \/ TabCall \/ TabGotoBlank \/ TabDelay \/ TabDispatchClick
    \/ TabWaitForNavigation \/ TabWaitSettles \/ TabCallerReads \/ TabCallAgain
    \/ TabCallerHandles
    \/ TabPageNavigates \/ TabNavigationTimeout

SpecSameTab == Init /\ [][NextSameTab]_vars

-----------------------------------------------------------------------------
(* Properties of a scenario run (Spec).                                    *)

\* acquireBrowser has returned { browser, ownsBrowser }
Acquired == IsDef(ownsBrowser)

\* C1: in every scenario and on every exit path, a session obtained by
\* attaching (ownsBrowser = false) never has browser.close invoked on it; the
\* only teardown operation invoked on it is browser.disconnect.
AttachedNeverClosed ==
    ownsBrowser = Some(FALSE) => calls.close = 0

\* an attached run has settled after disconnecting from the browser
AttachedDisconnected ==
    /\ ownsBrowser = Some(FALSE)
    /\ Settled
    /\ calls.disconnect = 1
    /\ calls.close = 0

\* C2: on every exit path after acquireBrowser succeeded, a browser that is
\* still connected has had its teardown invoked by the time the scenario
\* settles: browser.close when owned, browser.disconnect when attached.
SettledAfterTeardown ==
    (Settled /\ Acquired /\ browser.connected) =>
        IF Owns THEN calls.close > 0 ELSE calls.disconnect > 0

\* C3: in parseProduct and parseFirstProductFromRoot, when the first snapshot
\* is a challenge and headless is true or unset, the try block throws the
\* challenge error at once: waitForUserSignal is not called, no second
\* snapshot is captured, normalizeProductInfo is not called, and the scenario
\* settles by throwing (the challenge error, unless browser.close rejected in
\* the finally block and its error took the place).
HeadlessChallengeThrows ==
    (fn \in FullParse /\ evaluation.first = Some(TRUE) /\ Opts.headless # Some(FALSE)) =>
        /\ completion = [kind |-> "throw", reason |-> "challenge"]
        /\ calls.waitForUserSignal = 0
        /\ evaluation.count = 1
        /\ calls.normalize = 0
        /\ pc \in {"finally", "blocked", "teardown", "done"}
        /\ Settled => /\ outcome.kind = "threw"
                      /\ \/ outcome.reason = "challenge"
                         \/ outcome.reason = "driver" /\ calls.close = 1

\* a headless full-parse run has settled with the challenge error
HeadlessChallengeSettled ==
    /\ fn \in FullParse
    /\ evaluation.first = Some(TRUE)
    /\ Opts.headless # Some(FALSE)
    /\ outcome = [kind |-> "threw", reason |-> "challenge"]

\* C4: in headful mode a first snapshot that is a challenge starts exactly one
\* wait-then-re-evaluate cycle: waitForUserSignal is entered once and at most
\* one further snapshot is captured; a second snapshot that is still a
\* challenge ends the try block with the still-active error and without
\* normalization, one that is not leads to normalization; no second cycle.
HeadfulChallengeOneRetry ==
    (fn \in FullParse /\ evaluation.first = Some(TRUE) /\ Opts.headless = Some(FALSE)) =>
        /\ calls.waitForUserSignal = 1
        /\ evaluation.count \in {1, 2}
        /\ pc \in {"waitUser", "waitNav", "reevaluate"} => evaluation.count = 1
        /\ (evaluation.count = 2 /\ evaluation.current = Some(TRUE)) =>
              /\ completion = [kind |-> "throw", reason |-> "challengeStillActive"]
              /\ calls.normalize = 0
              /\ outcome.kind # "returned"
        /\ (evaluation.count = 2 /\ evaluation.current = Some(FALSE)) =>
              \/ pc = "normalize" /\ calls.normalize = 0
              \/ calls.normalize = 1
        /\ (calls.normalize > 0 \/ completion.reason = "challengeStillActive") =>
              evaluation.count = 2

\* a headful run whose challenge was still there after the manual retry
HeadfulChallengeStillActive ==
    /\ fn \in FullParse
    /\ Opts.headless = Some(FALSE)
    /\ evaluation = [count |-> 2, first |-> Some(TRUE), current |-> Some(TRUE)]
    /\ calls.waitForUserSignal = 1
    /\ outcome = [kind |-> "threw", reason |-> "challengeStillActive"]

\* acquireBrowser was given a connect port and no connect endpoint
OnlyPort == IsDef(options) /\ ~IsDef(Opts.connectEndpoint) /\ IsDef(Opts.connectPort)

\* the GET /json/version exchange ended in one of the failures: status >= 400,
\* transport error, timeout, a body that is not JSON, or one whose
\* webSocketDebuggerUrl is missing, not a string, or empty
FailedResolution ==
    \/ http.kind \in {"error", "timeout"}
    \/ /\ http.kind = "response"
       /\ \/ http.status >= 400
          \/ http.body \in {"notJson", "null", "noField", "fieldNumber", "fieldEmpty"}

\* C6: given only a connect port, every failed endpoint resolution makes
\* acquireBrowser throw the connection error; puppeteer.connect is not called
\* and no { browser, ownsBrowser } is returned.
FailedResolutionThrows ==
    (OnlyPort /\ FailedResolution) =>
        /\ outcome = [kind |-> "threw", reason |-> "connection"]
        /\ calls.connect = 0
        /\ calls.launch = 0
        /\ ~Acquired
        /\ browser = NoBrowser

\* a 200 response whose webSocketDebuggerUrl is a number made acquireBrowser throw
NonStringEndpointThrew ==
    /\ OnlyPort
    /\ http = [kind |-> "response", status |-> 200, body |-> "fieldNumber"]
    /\ outcome = [kind |-> "threw", reason |-> "connection"]

OwnsExactlyWhenLaunched ==
    /\ Acquired =>
          /\ Owns = FALSE <=> (browser.how = "connect" /\ calls.connect = 1)
          /\ Owns = TRUE <=> (browser.how = "launch" /\ calls.launch = 1)
    /\ calls.launch + calls.connect <= 1
    /\ (IsDef(options) /\ TruthyStr(Opts.connectEndpoint)) =>
          /\ calls.httpGet = 0
          /\ calls.launch = 0
          /\ Acquired => browser.endpoint = Opts.connectEndpoint

\* acquireBrowser attached to the endpoint it resolved from the port
AttachedThroughPort ==
    /\ OnlyPort
    /\ ownsBrowser = Some(FALSE)
    /\ calls.httpGet = 1
    /\ calls.connect = 1
    /\ browser.how = "connect"

\* C9: for the options parseCli produces, the runner blocks in
\* waitForHeadfulBrowser before teardown only when the scenario is
\* parseProduct, headless is false and keepBrowserOpen is set; never in
\* another scenario and never in a headless run.
BlocksOnlyInParseProduct ==
    (entry = "service" /\ calls.waitForHeadfulBrowser > 0) =>
        /\ Opts.scenario = "parseProduct"
        /\ Opts.headless = Some(FALSE)
        /\ Opts.keepBrowserOpen = Some(TRUE)

-----------------------------------------------------------------------------
(* Properties of the command line (SpecCli).                               *)

ConflictMessage == "Provide either --connect-endpoint or --connect-port, not both."

\* parseCli has been called
Parsed == cliPc # "start"

\* the endpoint / the port is supplied by a command-line flag
FlagEndpoint == Includes(cliArgv, "--connect-endpoint")
FlagPort == Includes(cliArgv, "--connect-port")
\* ... by the environment: a non-empty endpoint, a port that is a number
EnvEndpoint == TruthyStr(cliEnv.PARSER_CONNECT_ENDPOINT)
EnvPort == IsDef(parseNumber(cliEnv.PARSER_CONNECT_PORT))
\* ... by a flag of the original command line kept in npm_config_argv
NpmValue(flag) ==
    IF IsDef(cliEnv.npm_config_argv) /\ Val(cliEnv.npm_config_argv).wellFormed
    THEN LET original == Val(cliEnv.npm_config_argv).original
         IN  {getValue(original, flag, i) : i \in 1..Len(original)} \ {Undefined}
    ELSE {}
NpmEndpoint == \E v \in NpmValue("--connect-endpoint") : TruthyStr(v)
NpmPort == \E v \in NpmValue("--connect-port") : IsDef(parseNumber(v))

\* parseCli did not throw for another reason (a flag without its value, a
\* port that is no number, an unknown or unexpected argument)
NoOtherError == cliResult.error \in {Undefined, Some(ConflictMessage)}

-----------------------------------------------------------------------------
(* Properties of the extraction (SpecExtract).                             *)

\* the BreadcrumbList nodes of the page, in document order
BreadcrumbNodes(doc) ==
    SelectSeq(jsonLdNodes(doc), LAMBDA node : Get(node, "type") = JStr("BreadcrumbList"))

\* the entries of a list node, in list order
ListEntries(node) ==
    LET e == Get(node, "itemListElement")
    IN  IF e.t = "array" THEN SelectSeq(e.items, LAMBDA x : x.t \notin {"null", "undefined"})
        ELSE IF e.t \in {"null", "undefined"} THEN <<>> ELSE <<e>>

\* the label of an entry read as "the direct name when it is a string, else
\* the nested item's name when that is a string": <<label>>, or <<>> for none
StringLabel(element) ==
    LET name == Get(element, "name")
        nested == Get(Get(element, "item"), "name")
    IN  IF name.t = "string" THEN <<name.v>>
        ELSE IF nested.t = "string" THEN <<nested.v>> ELSE <<>>

\* the label as the extraction takes it: the direct name when there is one
\* (not null, not undefined), else the nested item's name; it counts when it
\* is a non-empty string
NonEmptyLabel(element) ==
    LET name == Get(element, "name")
        nested == Get(Get(element, "item"), "name")
        chosen == IF name.t \in {"null", "undefined"} THEN nested ELSE name
    IN  IF chosen.t = "string" /\ chosen.v # "" THEN <<chosen.v>> ELSE <<>>

\* the labels of all lists of the page, list after list, entry after entry
RECURSIVE StringLabels(_)
StringLabels(entries) ==
    IF entries = <<>> THEN <<>>
    ELSE StringLabel(Head(entries)) \o StringLabels(Tail(entries))
RECURSIVE NonEmptyLabels(_)
NonEmptyLabels(entries) ==
    IF entries = <<>> THEN <<>>
    ELSE NonEmptyLabel(Head(entries)) \o NonEmptyLabels(Tail(entries))
RECURSIVE AllEntries(_)
AllEntries(nodes) ==
    IF nodes = <<>> THEN <<>> ELSE ListEntries(Head(nodes)) \o AllEntries(Tail(nodes))

\* C10 as stated: the record's breadcrumbs are the concatenation, over the
\* BreadcrumbList nodes in document order, of the item labels in list order;
\* nothing is deduplicated, reordered or dropped except items that yield no
\* string label, and normalizeProductInfo passes the sequence through.
BreadcrumbsAreStringLabels ==
    /\ exPc # "start" => exSnapshot.breadcrumbs = StringLabels(AllEntries(BreadcrumbNodes(exDoc)))
    /\ exPc = "normalized" => exRecord.breadcrumbs = exSnapshot.breadcrumbs

\* C10 amended: the same concatenation, where an item's label is its direct
\* name when that is present (else the nested item's name) and the item is
\* dropped unless that label is a non-empty string.
BreadcrumbsAreNonEmptyLabels ==
    /\ exPc # "start" =>
          exSnapshot.breadcrumbs = NonEmptyLabels(AllEntries(BreadcrumbNodes(exDoc)))
    /\ exPc = "normalized" => exRecord.breadcrumbs = exSnapshot.breadcrumbs

\* two lists A, B and A, C were extracted into the record as A, B, A, C
DuplicatesKept ==
    /\ exPc = "normalized"
    /\ Len(BreadcrumbNodes(exDoc)) = 2
    /\ StringLabels(ListEntries(BreadcrumbNodes(exDoc)[1])) = <<"A", "B">>
    /\ StringLabels(ListEntries(BreadcrumbNodes(exDoc)[2])) = <<"A", "C">>
    /\ exRecord.breadcrumbs = <<"A", "B", "A", "C">>

-----------------------------------------------------------------------------
(* Properties of the normalisation of a product page (SpecNormalize).      *)

\* every comma of a text read as the decimal separator
ReplaceEveryComma(chars) ==
    [i \in 1..Len(chars) |-> IF chars[i] = "," THEN "." ELSE chars[i]]
\* the number of a text: every character other than digits, commas and
\* periods removed, every comma read as a period, the rest parsed, null when
\* the result is not a finite number
NumberOfText(text) ==
    LET kept == SelectSeq(Chars(text), LAMBDA c : c \in Digits \cup {",", "."})
        parsed == Number(ReplaceEveryComma(kept))
    IN  IF parsed = JNaN THEN JNull ELSE parsed
\* the offers of the snapshot's product, and the value toNumber is given
\* for the price
SnapshotOffers == extractFirst(Get(ProductOrEmpty(exSnapshot.product), "offers"))
PriceInput == NullishOr(Get(SnapshotOffers, "price"), exSnapshot.priceText)
Normalized == exPc \in {"normalized", "again", "reduced"}

\* C11: the number of a price string is the number of its text with every
\* character other than digits, commas and periods removed and every comma
\* read as the decimal separator, null when that is no finite number; without
\* a structured offer the price text '7 999 R' gives 7999 in RUB and '$19.99'
\* gives 19.99 in USD
PriceIsNumberOfText ==
    Normalized =>
        /\ PriceInput.t = "string" => exRecord.price.value = NumberOfText(PriceInput)
        /\ Nullish(SnapshotOffers) /\ exSnapshot.priceText = JText(RublePrice) =>
              exRecord.price.value = JNum(7999) /\ exRecord.price.currency = JStr("RUB")
        /\ Nullish(SnapshotOffers) /\ exSnapshot.priceText = JText(DollarPrice) =>
              exRecord.price.value = JDec(1999, 2) /\ exRecord.price.currency = JStr("USD")

\* a price text with a comma has been read as a decimal
CommaPriceParsed ==
    /\ Normalized
    /\ exSnapshot.priceText = JText(<<"1", ",", "1">>)
    /\ exRecord.price.value = JDec(11, 1)

NonEmptyString(value) == value.t = "string" /\ Chars(value) # <<>>
ExplicitProduct ==
    /\ exSnapshot.product.t = "object"
    /\ NonEmptyString(Get(exSnapshot.product, "name"))
    /\ NonEmptyString(Get(exSnapshot.product, "sku"))
    /\ NonEmptyString(Get(exSnapshot.product, "brand"))
    /\ Get(SnapshotOffers, "price").t = "number"
    /\ NonEmptyString(Get(SnapshotOffers, "priceCurrency"))
\* title, sku, price and currency of the record are those of the product node
ExplicitValuesKept ==
    /\ exRecord.title = Get(exSnapshot.product, "name")
    /\ exRecord.sku = Get(exSnapshot.product, "sku")
    /\ exRecord.price.value = Get(SnapshotOffers, "price")
    /\ exRecord.price.currency = Get(SnapshotOffers, "priceCurrency")

\* C13 as stated: with an explicit name, sku, brand, price and currency in
\* the product node, the record's title, sku, brand, price value and currency
\* are exactly those values, the brand untrimmed as well
ExplicitValuesUnchanged ==
    Normalized /\ ExplicitProduct =>
        ExplicitValuesKept /\ exRecord.brand = Get(exSnapshot.product, "brand")

\* C13: with an explicit name, sku, brand, price and currency in the product
\* node, the record's title, sku, price value and currency are exactly those
\* values, whatever the heading and the price text of the page, and its brand
\* is the brand string without its leading and trailing whitespace, null
\* when nothing else is in it
ExplicitValuesWithTrimmedBrand ==
    Normalized /\ ExplicitProduct =>
        /\ ExplicitValuesKept
        /\ exRecord.brand =
              (IF Trim(Chars(Get(exSnapshot.product, "brand"))) = <<>> THEN JNull
               ELSE TrimStr(Get(exSnapshot.product, "brand")))

\* an explicit brand in whitespace has been trimmed, on a page whose heading
\* and price text differ from the product node's name and price
BrandTrimmed ==
    /\ Normalized /\ ExplicitProduct
    /\ exDom = HeadingPriceDom
    /\ Get(exSnapshot.product, "brand") = JText(<<" ", "A", " ">>)
    /\ exRecord.brand = JText(<<"A">>)

\* C14: the title of the record is a non-empty string: the name of the
\* product node when that is a non-empty string, else the heading of the
\* page, else 'Unknown product'; a heading element that is empty or holds
\* whitespace only never gives an empty title
TitleIsNonEmpty ==
    Normalized =>
        /\ NonEmptyString(exRecord.title)
        /\ NonEmptyString(Get(exSnapshot.product, "name")) =>
              exRecord.title = Get(exSnapshot.product, "name")

\* C15: normalizeProductInfo returns a record without throwing for every
\* snapshot, the product node null or its offers, aggregateRating, brand,
\* seller and image of any JSON shape, and a snapshot without one of its
\* properties gives a record that differs only in the fields computed from
\* that property; without a product node the title and the price still come
\* from the heading and the price text
NormalizeIsBestEffort ==
    /\ Normalized => exRecord # TypeError
    /\ Normalized /\ Nullish(exSnapshot.product) =>
          /\ exRecord.title = NullishOr(exSnapshot.heading, JStr("Unknown product"))
          /\ exRecord.price.value = toNumber(exSnapshot.priceText)
          /\ exRecord.price.currency = detectCurrencySymbol(exSnapshot.priceText)
          /\ exRecord.price.displayText = exSnapshot.priceText
    /\ exPc = "reduced" =>
          /\ exReduced # TypeError
          /\ \A f \in DOMAIN exRecord \ DerivedFrom(exRemoved) :
                exReduced[f] = exRecord[f]

\* the product node has been taken out of a snapshot with a heading and a
\* price text: title and price are those of the page and the url is kept
ProductRemoved ==
    /\ exPc = "reduced"
    /\ exRemoved = "product"
    /\ exRecord.price.value = JNum(100)
    /\ exReduced.price.value = JNum(7999)
    /\ exReduced.title = JText(<<"H">>)
    /\ exReduced.url = exRecord.url

-----------------------------------------------------------------------------
(* Properties of parseCli on the flags and the environment (SpecCli).      *)

\* parseCli has returned options
Returned == cliPc # "start" /\ ~IsDef(cliResult.error)
\* the arguments parseCli works on
CliArgs == SelectSeq(cliArgv, LAMBDA a : a # "--")

\* C16: with --auto-close among the arguments and --keep-browser-open not,
\* parseCli returns keepBrowserOpen = false, headful or not, wherever
\* --auto-close stands relative to --no-headless and whatever PARSER_HEADLESS is
AutoCloseWins ==
    Returned /\ Includes(CliArgs, "--auto-close")
             /\ ~Includes(CliArgs, "--keep-browser-open") =>
        ~Val(cliResult.options).keepBrowserOpen

\* the value that follows the last of the given flags among the arguments
FlagGiven(names) == \E i \in 1..Len(CliArgs) - 1 : CliArgs[i] \in names
FlagValue(names) ==
    LET last == CHOOSE i \in 1..Len(CliArgs) - 1 :
                    /\ CliArgs[i] \in names
                    /\ \A j \in (i + 1)..(Len(CliArgs) - 1) : CliArgs[j] \notin names
    IN  IF FlagGiven(names) THEN Some(CliArgs[last + 1]) ELSE Undefined
\* the number a flag or a variable gives
AsNumber(value) == IF IsDef(value) THEN Some(NumberOf(Val(value))) ELSE Undefined
\* flag over environment over default, for each of the five options
ByPrecedence ==
    [url |-> Val(Coalesce(FlagValue({"--url", "-u"}),
                          Coalesce(cliEnv.PARSER_PRODUCT_URL, Some(DEFAULT_PRODUCT_URL)))),
     timeoutMs |-> Coalesce(AsNumber(FlagValue({"--timeout"})),
                            AsNumber(cliEnv.PARSER_TIMEOUT)),
     proxy |-> Coalesce(FlagValue({"--proxy"}),
                        Coalesce(cliEnv.PARSER_PROXY,
                                 Coalesce(cliEnv.HTTPS_PROXY, cliEnv.HTTP_PROXY))),
     proxyUsername |-> Coalesce(FlagValue({"--proxy-username"}),
                                cliEnv.PARSER_PROXY_USERNAME),
     proxyPassword |-> Coalesce(FlagValue({"--proxy-password"}),
                                cliEnv.PARSER_PROXY_PASSWORD)]
\* the flags of each option
FlagsOf ==
    [url |-> {"--url", "-u"}, timeoutMs |-> {"--timeout"}, proxy |-> {"--proxy"},
     proxyUsername |-> {"--proxy-username"}, proxyPassword |-> {"--proxy-password"}]
\* every argument is a flag or the value of the flag before it
OnlyFlags ==
    \A i \in 1..Len(CliArgs) :
        StartsWithDash(CliArgs[i]) \/ (i > 1 /\ StartsWithDash(CliArgs[i - 1]))

\* C17: url, timeout, proxy, proxy username and proxy password are resolved
\* flag over environment variable over default, the proxy of the environment
\* PARSER_PROXY over HTTPS_PROXY over HTTP_PROXY, and a value given by a flag
\* is never replaced by a value of the environment or of npm_config_argv
FlagOverEnvOverDefault ==
    Returned =>
        /\ OnlyFlags /\ cliEnv.npm_config_argv = Undefined =>
              \A f \in DOMAIN ByPrecedence : Val(cliResult.options)[f] = ByPrecedence[f]
        /\ \A f \in DOMAIN FlagsOf :
              FlagGiven(FlagsOf[f]) => Val(cliResult.options)[f] = ByPrecedence[f]

-----------------------------------------------------------------------------
(* Properties of the challenge flow and the navigation (Spec).             *)

\* C18: in the headful challenge flow the second snapshot is taken only
\* after the wait for the user's signal has completed, by a chunk of input
\* on a terminal and by the fallback timer otherwise, and after the wait for
\* a navigation has returned or timed out
SecondSnapshotAfterSignal ==
    /\ [](evaluation.count = 2 =>
            /\ calls.waitForUserSignal = 1
            /\ calls.stdinData + calls.signalTimer = 1
            /\ calls.waitForNavigation = 1)
    /\ [][calls'.stdinData # calls.stdinData =>
            pc = "waitUser" /\ stdinTTY = Some(TRUE)]_vars
    /\ [][calls'.signalTimer # calls.signalTimer =>
            pc = "waitUser" /\ stdinTTY = Some(FALSE)]_vars
    /\ [][calls'.waitForNavigation # calls.waitForNavigation =>
            calls.stdinData + calls.signalTimer = 1 /\ evaluation.count = 1]_vars
    /\ [][evaluation'.count = 2 /\ evaluation.count = 1 =>
            calls.waitForNavigation = 1]_vars

\* the second snapshot has been taken after the fallback timer of a run
\* without a terminal
ReevaluatedAfterTimer ==
    /\ evaluation.count = 2
    /\ calls.signalTimer = 1
    /\ calls.stdinData = 0
    /\ calls.waitForNavigation = 1

\* C19: when navigateWithAnchor returns null because no new page appeared in
\* time, the calling scenario throws: it evaluates no page, builds no record
\* and does not return, in parseProduct, openProduct, openRoot and openGoogle
\* as in the scenarios that first look for a product link
NoPageIsFatal ==
    calls.noPage > 0 =>
        /\ evaluation.count = 0
        /\ calls.normalize = 0
        /\ outcome.kind # "returned"

-----------------------------------------------------------------------------
(* Properties of the new-tab navigation (SpecNavigate).                    *)

\* C20: the 'targetcreated' listener is registered on the browser before the
\* anchor click is dispatched, so that however the click and the browser's
\* notification of the opened page interleave, the notification finds the
\* listener and resolves the promise, or comes after the timeout; it is
\* never lost for want of a listener
ListenerBeforeClick ==
    /\ navClick => navListener # "none"
    /\ navObserved # "lost"
    /\ navObserved = "observed" => navPromise = "resolved"
    /\ navObserved = "late" => navTimer = "fired"

\* the notification has been observed while page.evaluate was still pending
ObservedBeforeEvaluateReturned ==
    /\ navPc = "clickPending"
    /\ navObserved = "observed"
    /\ navPromise = "resolved"

-----------------------------------------------------------------------------
(* Further properties of a scenario run (Spec).                            *)

\* C23: in every scenario, when proxyUsername or proxyPassword is configured,
\* the credentials have been supplied by page.authenticate before the first
\* navigation is made
AuthenticatedBeforeNavigation ==
    (/\ IsDef(options)
     /\ TruthyStr(Opts.proxyUsername) \/ TruthyStr(Opts.proxyPassword)
     /\ calls.navigate > 0)
        => calls.authenticate > 0

\* C24: OzonParserService.run executes the flow of the scenario it was asked
\* for, for each of the six scenarios; for parseFirstProductFromRoot the
\* snapshot is taken after two navigations (the root page, then the product
\* found on it) and not after parsing options.url directly
RunExecutesOwnFlow ==
    entry = "service" =>
        /\ fn = Opts.scenario
        /\ (Opts.scenario = "parseFirstProductFromRoot" /\ evaluation.count > 0)
              => calls.navigate = 2

\* C27: waitForHeadfulBrowser settles exactly once, by whichever of its
\* events comes first (the browser's 'disconnected', one chunk of terminal
\* input, the 120 s timer without a terminal), in every interleaving: a later
\* event calls finish() without effect, the fallback timer is cleared when
\* another event settles the wait, and after a wait that the closing of the
\* browser has settled the teardown invokes neither close nor disconnect
HeadfulWaitSettlesOnce ==
    /\ headful.resolve <= 1
    /\ headful.settled <=> headful.resolve = 1
    /\ headful.settled <=> headful.by # "none"
    /\ (headful.once # "none" /\ pc \notin {"blocked", "fsBlocked"}) => headful.settled
    /\ headful.settled => headful.timer # "armed" /\ ~headful.flowing
    /\ headful.by \in {"disconnected", "data"} => headful.timer # "fired"
    /\ headful.by = "disconnected" => calls.close = 0 /\ calls.disconnect = 0

\* terminal input has ended the wait and the 'disconnected' event of the
\* teardown's close has run finish() a second time
LaterEventWithoutEffect ==
    /\ headful.by = "data"
    /\ headful.finish = 2
    /\ headful.resolve = 1
    /\ calls.close = 1
    /\ Settled

\* the run waits for the user at an interactive terminal
WaitsAtTerminal ==
    pc \in {"waitUser", "blocked", "fsBlocked"} /\ stdinTTY = Some(TRUE)

\* C30: on a non-interactive terminal every scenario run eventually returns
\* or throws, given that awaited driver calls return and timers fire (the 5 s
\* of the endpoint resolution, the navigation timeout, the 30 s of the
\* manual-challenge wait, the 120 s of the keep-open wait); a run that does
\* not end is waiting at an interactive terminal
RunTerminates ==
    (pc # "idle") ~> (Settled \/ WaitsAtTerminal)

\* a run without a terminal that both fallback timers have let go on
EndedByBothTimers ==
    /\ Settled
    /\ calls.signalTimer = 1
    /\ calls.stdinData = 0
    /\ headful.by = "timer"

-----------------------------------------------------------------------------
(* Properties of the same-tab navigation (SpecSameTab).                    *)

\* C21: in the same-tab navigateWithAnchor a timeout of waitForNavigation is
\* not fatal: the function logs one warning and returns normally, and the
\* scenario that awaited it goes on to read the page in whatever state it is
TimeoutOfNavigationWaitNotFatal ==
    [][/\ (tabPc = "waiting" /\ tabWait = "timedOut" /\ tabPc' # tabPc) =>
             (tabPc' = "returned" /\ tabWarnings' = tabWarnings + 1)
       /\ (tabPc = "returned" /\ tabPc' # tabPc) =>
             (tabPc' = "read" /\ tabRead' = tabLocation)]_vars

\* the wait has timed out and the scenario has read the page, still blank
ReadAfterTimeout ==
    /\ tabPc = "read"
    /\ tabWait = "timedOut"
    /\ tabWarnings = 1
    /\ tabRead = "about:blank"

\* C22: in the same-tab navigateWithAnchor, as in the new-tab one, a failure
\* or timeout of the initial about:blank load is not fatal: the function does
\* not throw and the anchor is still injected and clicked afterwards
BlankLoadFailureNotFatal ==
    tabBlank = "failed" =>
        /\ tabPc \notin {"threw", "handled"}
        /\ tabPc \in {"returned", "read"} => tabClicked

-----------------------------------------------------------------------------
(* Further properties of the new-tab navigation (SpecNavigate).            *)

\* C25: when the new-tab navigateWithAnchor has returned the page it opened,
\* the page the calling scenario reads next is that page, on which the target
\* was loaded, and never the original page, which was left on about:blank
ReadsThePageLoaded ==
    (navCaller # "none" /\ navResult = "page") => navRead = "returned"

\* C26: on every exit path of the new-tab navigateWithAnchor (page captured,
\* timeout, target without page, click evaluation throwing) nothing is left
\* pending: the 'targetcreated' listener has been removed and the timer has
\* been cleared or has fired, so that the promise cannot be rejected later
NothingPendingOnExit ==
    navPc \in {"returned", "threw"} =>
        /\ navListener # "on"
        /\ navTimer # "armed"

-----------------------------------------------------------------------------
(* Further properties of the command line (SpecCli).                       *)

\* C28: every options record parseCli returns has at most one of
\* connectEndpoint and connectPort defined, also after the recovery from
\* npm_config_argv and for every value of PARSER_CONNECT_ENDPOINT and
\* PARSER_CONNECT_PORT, the empty string included
AtMostOneConnectOption ==
    Returned =>
        ~(/\ IsDef(Val(cliResult.options).connectEndpoint)
          /\ IsDef(Val(cliResult.options).connectPort))

-----------------------------------------------------------------------------
(* Further properties of the normalisation (SpecNormalize).                *)

\* a string without a digit
NoDigit(value) ==
    value.t = "string" /\ \A i \in 1..Len(Chars(value)) : Chars(value)[i] \notin Digits

\* C29: when the value toNumber is given for the price is a string with no
\* digit in it, the price value of the record is null, and never 0
NoDigitPriceIsNull ==
    (Normalized /\ NoDigit(PriceInput)) => exRecord.price.value = JNull

====
